---- MODULE Spec2Model ----
(***************************************************************************)
(* SolveLicita: the solvency-score engine (src/src/score/solvency.py).     *)
(*                                                                         *)
(* Number representation.  The engine works on floats that are decimal     *)
(* fractions with few digits; the model keeps them as exact integers:     *)
(*   - a raw ratio (eorcam_raw, rrestos_raw, the median) is a record       *)
(*     [s, n] standing for the percentage s / (100 * n): s is a sum of     *)
(*     yearly values in hundredths of a percent, n the number of values    *)
(*     averaged;                                                           *)
(*   - a normalised value (eorcam_norm, rrestos_norm, ccauc, qsiconfi)     *)
(*     is an integer number of 1/10000 (the code rounds them to 4          *)
(*     decimals);                                                          *)
(*   - a contribution is an integer number of 1/10000 of a point;          *)
(*   - the score is an integer number of tenths of a point.                *)
(* round(x, d) is modelled as round-half-to-even on the exact value, which *)
(* is what Python and pandas compute up to binary representation error.    *)
(* A missing normalised value, contribution or score (None / NaN) is NaN;  *)
(* a missing raw ratio is NaNRaw, the mean of no value at all (n = 0).     *)
(***************************************************************************)
EXTENDS Integers, Sequences, FiniteSets, TLC

VARIABLES
    \* ---- the scoring pipeline (solvency.py, module level) ----
    pc,               \* the section of the script that runs next
    df_si,            \* siconfi_indicadores_pb.csv: one row per municipality and year
    df_ca,            \* cauc_situacao_pb.csv: the pendencias cell per municipality
    df_qsi,           \* section 2: delivered reference years per municipality
    df_fis,           \* section 3: eorcam_raw / rrestos_raw / flag / norms
    df,               \* section 5 onwards: the master table being scored
    mediana_rrestos,  \* the state median of the clamped raw arrears
    mask_nan_rrestos, \* the rows that take the arrears fallback
    \* ---- pontuar_ccauc applied on its own ----
    pendencias_str,   \* the argument
    ccauc_ret,        \* the value returned for pendencias_str
    ccauc_ant,        \* the value returned before the last label was appended
    \* ---- pontuar_eorcam, pontuar_rrestos, classificar and cor_por_score
    \*      applied on their own ----
    arg,              \* the argument
    ret,              \* the value returned for arg
    arg_ant,          \* the argument of the call before, a smaller one
    ret_ant,          \* the value returned for arg_ant
    \* ---- pontuar_scaixa, pontuar_autonomia and _porte applied on their own ----
    fn,               \* the normaliser that is called
    pop,              \* the population passed to pontuar_autonomia
    porte,            \* the bucket pontuar_autonomia takes from _porte
    \* ---- carregar_dca (dca_scorer.py) ----
    pc_dca,           \* the step of carregar_dca that runs next
    dca,              \* the table carregar_dca builds
    \* ---- the PNCP collector (pncp.py, main) ----
    pc_pncp,          \* where main stands
    execucao,         \* the number of the run of main
    snap_jsonl,       \* the lines of pncp_parcial.jsonl
    chaves_feitas,    \* the keys main read from the file when it started
    pos,              \* the place of the next block in the grid
    ret_bloco,        \* what the last call of coletar_bloco returned
    pedidos,          \* every page requested so far, in any run
    escritas,         \* every block appended to the file so far, in any run
    \* ---- the SICONFI crawler (siconfi.py, orquestrar_coleta) ----
    semaforo,         \* the free slots of the semaphore
    tarefa,           \* where each extrair_assincrono coroutine stands
    paginas,          \* the pages fetched beyond the first, by any coroutine
    \* ---- fetch_com_retry (siconfi.py) ----
    pc_fetch,         \* where the call stands
    tentativas,       \* the argument: how many attempts are allowed
    tentativa,        \* the loop variable
    respostas,        \* the answer to each GET issued, in order
    esperas,          \* the seconds of each asyncio.sleep, in order
    retorno,          \* what the call returned
    \* ---- the CAUC collector (cauc.py, main) ----
    pc_cauc,          \* where the collector stands with the row
    linha_cauc        \* one row of the CAUC file: the cell of each requirement

pipeVars  == <<pc, df_si, df_ca, df_qsi, df_fis, df, mediana_rrestos, mask_nan_rrestos>>
ccaucVars == <<pendencias_str, ccauc_ret, ccauc_ant>>
fnVars    == <<arg, ret, arg_ant, ret_ant>>
normVars  == <<fn, pop, porte>>
dcaVars   == <<pc_dca, dca>>
pncpVars  == <<pc_pncp, execucao, snap_jsonl, chaves_feitas, pos, ret_bloco, pedidos, escritas>>
sicVars   == <<semaforo, tarefa, paginas>>
fetchVars == <<pc_fetch, tentativas, tentativa, respostas, esperas, retorno>>
caucVars  == <<pc_cauc, linha_cauc>>
coletoresVars == <<pncpVars, sicVars, fetchVars, caucVars>>
scoreVars == <<pipeVars, ccaucVars, fnVars, normVars, dcaVars>>
demaisVars == <<normVars, dcaVars, coletoresVars>>
vars      == <<pipeVars, ccaucVars, fnVars, demaisVars>>

\* None / NaN in a column of normalised values, contributions or scores
NaN == -1
\* None / NaN in a column of raw ratios: the mean of zero values
NaNRaw == [s |-> 0, n |-> 0]
\* a yearly value of h hundredths of a percent
V(h) == [s |-> h, n |-> 1]
\* pd.isna / notna on a raw ratio
IsNaRaw(x) == x.n = 0
\* a string cell, and a cell that holds no string (an empty CSV field reads as NaN)
Str(t) == [str |-> TRUE, txt |-> t]
NaoStr == [str |-> FALSE, txt |-> <<>>]
\* pontuar_ccauc not applied yet
Pendente == -2

----------------------------------------------------------------------------
(* Bounds of the model *)

\* rows of municipios_pb_tabela.csv
NumMun == 3
\* tokens of a pendency string drawn at the start
MaxTok == 2
\* labels appended to a pendency string, one at a time
MaxRotulos == 5
\* tenths of a point drawn on either side of each threshold of the risk bands
Janela == 3
\* hundredths of a percent drawn on either side of each breakpoint of
\* pontuar_eorcam and pontuar_rrestos
JanelaRaw == 3

----------------------------------------------------------------------------
(* Arithmetic *)

Min(a, b) == IF a <= b THEN a ELSE b
Max(a, b) == IF a >= b THEN a ELSE b

\* round(a / b) to the nearest integer, ties to the even one (a >= 0, b > 0)
RoundHE(a, b) ==
    LET q == a \div b
        r == a % b
    IN  IF 2 * r > b \/ (2 * r = b /\ q % 2 = 1) THEN q + 1 ELSE q

\* a raw ratio compared with a number of percent: x < c, x <= c
Lt(x, c) == x.s < 100 * c * x.n
Le(x, c) == x.s <= 100 * c * x.n
\* two raw ratios compared
LeRaw(x, y) == x.s * y.n <= y.s * x.n

----------------------------------------------------------------------------
(* Constants of solvency.py *)

PESOS == [eorcam |-> 31, rrestos |-> 25, qsiconfi |-> 19, ccauc |-> 25]
PESO_TOTAL == PESOS.eorcam + PESOS.rrestos + PESOS.qsiconfi + PESOS.ccauc

ANOS_REF == {2020, 2021, 2022, 2023, 2024}

(* Constants of dca_scorer.py: the weights of the two DCA indicators, which *)
(* its header declares as part of a total of 100 points                     *)
PESO_SCAIXA == 20
PESO_AUTONOMIA == 10

PENDENCIAS_GRAVES ==
    { "Regularidade Fiscal (RFB)", "Regularidade PGFN", "CADIN",
      "SISTN (Dívida Consolidada)", "LRF - Limite Pessoal Executivo",
      "Adimplência TCU", "Adimplência CGU" }

PENDENCIAS_MODERADAS ==
    { "Regularidade FGTS", "Regularidade Trabalhista (TST)", "SIOPS (Saúde)",
      "SIOPE (Educação)", "SICONV/TRANSFEREGOV Prestação de Contas",
      "SISTN (Garantias)", "LRF - Limite Pessoal Legislativo" }

----------------------------------------------------------------------------
(* Strings.  A string is a sequence of tokens: " " is white space, "|" the *)
(* separator, every other token a run of text without either at its ends.  *)

Rotulos == {"CADIN", "Regularidade FGTS", "SICONFI RREO"}
Tokens  == Rotulos \cup {" ", "|", "REGULAR", "regular"}

\* str.upper(), token by token
UpperTok(t) ==
    CASE t = "regular"           -> "REGULAR"
      [] t = "Regularidade FGTS" -> "REGULARIDADE FGTS"
      [] t = "SICONFI RREO"      -> "SICONFI RREO"
      [] OTHER                   -> t
upper(s) == [i \in 1..Len(s) |-> UpperTok(s[i])]

\* str.strip(): white space removed at both ends
RECURSIVE lstrip(_)
lstrip(s) == IF s # <<>> /\ Head(s) = " " THEN lstrip(Tail(s)) ELSE s
RECURSIVE rstrip(_)
rstrip(s) ==
    IF s # <<>> /\ s[Len(s)] = " " THEN rstrip(SubSeq(s, 1, Len(s) - 1)) ELSE s
strip(s) == rstrip(lstrip(s))

\* str.split("|"): the pieces between separators; never an empty list
RECURSIVE split(_)
split(s) ==
    IF \A i \in 1..Len(s) : s[i] # "|"
    THEN <<s>>
    ELSE LET k == CHOOSE i \in 1..Len(s) :
                     s[i] = "|" /\ \A j \in 1..(i - 1) : s[j] # "|"
         IN  <<SubSeq(s, 1, k - 1)>> \o split(SubSeq(s, k + 1, Len(s)))

\* isinstance(x, str)
IsStr(x) == x.str

\* item in <set of labels>: a piece is a label when it is that single text
EhRotulo(item, conj) == Len(item) = 1 /\ item[1] \in conj

----------------------------------------------------------------------------
(* Scoring functions *)

\* pontuar_eorcam with the ceiling of 0.5 above 120 % forgotten
pontuar_eorcam_sem_teto(x) ==
    IF IsNaRaw(x) THEN NaN
    ELSE IF ~Lt(x, 90) /\ Le(x, 105) THEN 10000
    ELSE IF ~Le(x, 105) THEN RoundHE(135000 * x.n - 10 * x.s, 3 * x.n)
    ELSE IF ~Lt(x, 70) THEN RoundHE(5 * (x.s - 7000 * x.n), x.n)
    ELSE 0
\* ... with the decay between 105 % and 120 % replaced by the ceiling
pontuar_eorcam_degrau(x) ==
    IF IsNaRaw(x) THEN NaN
    ELSE IF ~Lt(x, 90) /\ Le(x, 105) THEN 10000
    ELSE IF ~Le(x, 105) THEN 5000
    ELSE IF ~Lt(x, 70) THEN RoundHE(5 * (x.s - 7000 * x.n), x.n)
    ELSE 0
\* ... with the ramp between 70 % and 90 % running the wrong way
pontuar_eorcam_rampa_invertida(x) ==
    IF IsNaRaw(x) THEN NaN
    ELSE IF ~Lt(x, 90) /\ Le(x, 105) THEN 10000
    ELSE IF ~Le(x, 120) THEN 5000
    ELSE IF ~Le(x, 105) THEN RoundHE(135000 * x.n - 10 * x.s, 3 * x.n)
    ELSE IF ~Lt(x, 70) THEN RoundHE(5 * (9000 * x.n - x.s), x.n)
    ELSE 0
pontuar_eorcam(x) ==
    IF IsNaRaw(x) THEN NaN
    ELSE IF ~Lt(x, 90) /\ Le(x, 105) THEN 10000
    ELSE IF ~Le(x, 120) THEN 5000
    ELSE IF ~Le(x, 105) THEN RoundHE(135000 * x.n - 10 * x.s, 3 * x.n)
    ELSE IF ~Lt(x, 70) THEN RoundHE(5 * (x.s - 7000 * x.n), x.n)
    ELSE 0

\* max(x, 0.0), with the clamp left out
SemClamp(x) == x
Clamp0(x) == IF x.s < 0 THEN [s |-> 0, n |-> x.n] ELSE x

\* pontuar_rrestos with the factor 0.7 of the quadratic segment forgotten
pontuar_rrestos_sem_fator(x) ==
    IF IsNaRaw(x) THEN NaN
    ELSE LET c == Clamp0(x) IN
         IF c.s = 0 THEN 10000
         ELSE IF ~Lt(c, 10) THEN 0
         ELSE IF Le(c, 3) THEN RoundHE(10000 * c.n - 10 * c.s, c.n)
         ELSE RoundHE((1000 * c.n - c.s) * (1000 * c.n - c.s), 49 * c.n * c.n)
pontuar_rrestos(x) ==
    IF IsNaRaw(x) THEN NaN
    ELSE LET c == Clamp0(x) IN
         IF c.s = 0 THEN 10000
         ELSE IF ~Lt(c, 10) THEN 0
         ELSE IF Le(c, 3) THEN RoundHE(10000 * c.n - 10 * c.s, c.n)
         ELSE RoundHE((1000 * c.n - c.s) * (1000 * c.n - c.s), 70 * c.n * c.n)

\* any(item in PENDENCIAS_GRAVES for item in itens), with the slip of
\* asking it of every item
TodosGraves(itens) ==
    \A i \in 1..Len(itens) : EhRotulo(itens[i], PENDENCIAS_GRAVES)
AlgumGrave(itens) ==
    \E i \in 1..Len(itens) : EhRotulo(itens[i], PENDENCIAS_GRAVES)

\* round(min(pontos / 20, 0.5), 4), with the ceiling forgotten
RiscoSemTeto(pontos) == RoundHE(pontos * 10000, 20)
RiscoProporcional(pontos) == RoundHE(Min(pontos * 10000, 5000 * 20), 20)

pontuar_ccauc(p) ==
    IF ~IsStr(p) \/ upper(strip(p.txt)) = <<"REGULAR">> THEN 0
    ELSE LET pieces == split(p.txt)
             itens  == [i \in 1..Len(pieces) |-> strip(pieces[i])]
             idx    == 1..Len(itens)
         IN  IF AlgumGrave(itens) THEN 10000
             ELSE LET n_mod  == Cardinality({i \in idx : EhRotulo(itens[i], PENDENCIAS_MODERADAS)})
                      n_leve == Cardinality({i \in idx : ~EhRotulo(itens[i], PENDENCIAS_MODERADAS)})
                      pontos == n_mod * 2 + n_leve * 1
                  IN  RiscoProporcional(pontos)

\* the risk bands; the source prefixes each label with a coloured symbol.
\* First with the slip of exclusive lower bounds.
classificarEstrito(s) ==
    IF s = NaN THEN "Sem Dados"
    ELSE IF s > 750 THEN "Risco Baixo"
    ELSE IF s > 550 THEN "Risco Médio"
    ELSE IF s > 350 THEN "Risco Alto"
    ELSE "Crítico"
classificar(s) ==
    IF s = NaN THEN "Sem Dados"
    ELSE IF s >= 750 THEN "Risco Baixo"
    ELSE IF s >= 550 THEN "Risco Médio"
    ELSE IF s >= 350 THEN "Risco Alto"
    ELSE "Crítico"

\* the palette of the dashboard (app/main.py), keyed by the band
CORES ==
    [c \in {"Risco Baixo", "Risco Médio", "Risco Alto", "Crítico", "Sem Dados"} |->
        CASE c = "Risco Baixo" -> "#22c55e"
          [] c = "Risco Médio" -> "#ca8a04"
          [] c = "Risco Alto"  -> "#ef4444"
          [] c = "Crítico"     -> "#991b1b"
          [] c = "Sem Dados"   -> "#374151"]

\* the colour of a municipality on the map (app/main.py)
cor_por_score(score) ==
    IF score = NaN THEN CORES["Sem Dados"]
    ELSE IF score >= 750 THEN CORES["Risco Baixo"]
    ELSE IF score >= 550 THEN CORES["Risco Médio"]
    ELSE IF score >= 350 THEN CORES["Risco Alto"]
    ELSE CORES["Crítico"]

----------------------------------------------------------------------------
(* pontuar_ccauc applied on its own: to a drawn string, then to the string  *)
(* with one more label joined the way the CAUC collector joins them.       *)

RECURSIVE SeqsUpTo(_)
SeqsUpTo(k) ==
    IF k = 0 THEN {<<>>}
    ELSE LET prev == SeqsUpTo(k - 1)
         IN  prev \cup {Append(q, t) : q \in prev, t \in Tokens}

\* no call of pontuar_eorcam, pontuar_rrestos, classificar or cor_por_score
\* on its own
FnParado ==
    /\ arg = Pendente
    /\ ret = Pendente
    /\ arg_ant = Pendente
    /\ ret_ant = Pendente

\* no normaliser of dca_scorer.py called on its own
NormParado ==
    /\ fn = ""
    /\ pop = Pendente
    /\ porte = ""

\* carregar_dca not called
DcaParado ==
    /\ pc_dca = "parado"
    /\ dca = <<>>

\* coletar_bloco not called yet
SemRetorno == [chave |-> <<>>, paginas |-> {}, total_pags |-> 0, sucesso |-> FALSE]

\* the PNCP collector not started
PncpParado ==
    /\ pc_pncp = "parado"
    /\ execucao = 0
    /\ snap_jsonl = <<>>
    /\ chaves_feitas = {}
    /\ pos = 0
    /\ ret_bloco = SemRetorno
    /\ pedidos = {}
    /\ escritas = {}

\* the SICONFI crawler not started
SicParado ==
    /\ semaforo = 0
    /\ tarefa = <<>>
    /\ paginas = 0

\* fetch_com_retry not called
FetchParado ==
    /\ pc_fetch = "parado"
    /\ tentativas = 0
    /\ tentativa = 0
    /\ respostas = <<>>
    /\ esperas = <<>>
    /\ retorno = ""

\* the CAUC collector not started
CaucParado ==
    /\ pc_cauc = "parado"
    /\ linha_cauc = <<>>

\* no collector runs
ColetoresParados ==
    /\ PncpParado
    /\ SicParado
    /\ FetchParado
    /\ CaucParado

\* the collectors and the DCA scorer stand still
DemaisParados ==
    /\ NormParado
    /\ DcaParado
    /\ ColetoresParados

\* the pipeline stands still while a scoring function is exercised alone
PipeParado ==
    /\ pc = "parado"
    /\ df_si = <<>>
    /\ df_ca = <<>>
    /\ df_qsi = <<>>
    /\ df_fis = <<>>
    /\ df = <<>>
    /\ mediana_rrestos = NaNRaw
    /\ mask_nan_rrestos = {}

InitCcauc ==
    /\ pendencias_str \in {NaoStr} \cup {Str(t) : t \in SeqsUpTo(MaxTok)}
    /\ ccauc_ret = Pendente
    /\ ccauc_ant = Pendente
    /\ PipeParado
    /\ FnParado
    /\ DemaisParados

PontuarCcauc ==
    /\ ccauc_ret = Pendente
    /\ ccauc_ret' = pontuar_ccauc(pendencias_str)
    /\ UNCHANGED <<pendencias_str, ccauc_ant>>
    /\ UNCHANGED pipeVars
    /\ UNCHANGED fnVars
    /\ UNCHANGED demaisVars

\* " | ".join(pendencias) with one more label (cauc.py), scored again
AcrescentarPendencia(l) ==
    /\ ccauc_ret # Pendente
    /\ IsStr(pendencias_str)
    /\ Len(pendencias_str.txt) + 4 <= MaxTok + 4 * MaxRotulos
    /\ pendencias_str' = Str(pendencias_str.txt \o <<" ", "|", " ", l>>)
    /\ ccauc_ant' = ccauc_ret
    /\ ccauc_ret' = pontuar_ccauc(pendencias_str')
    /\ UNCHANGED pipeVars
    /\ UNCHANGED fnVars
    /\ UNCHANGED demaisVars

NextCcauc ==
    \/ PontuarCcauc
    \/ \E l \in Rotulos : AcrescentarPendencia(l)

SpecCcauc == InitCcauc /\ [][NextCcauc]_vars

----------------------------------------------------------------------------
(* classificar and cor_por_score applied on their own: to a drawn score,    *)
(* then to any higher one.                                                  *)

\* pontuar_ccauc not called on its own
CcaucParado ==
    /\ pendencias_str = NaoStr
    /\ ccauc_ret = Pendente
    /\ ccauc_ant = Pendente

\* scores in tenths of a point: every whole point from 0 to 100, and every
\* tenth within Janela of a threshold
Scores ==
    {s \in 0..1000 :
        \/ s % 10 = 0
        \/ \E t \in {350, 550, 750} : t - Janela <= s /\ s <= t + Janela}

\* what the pipeline and the dashboard make of one score, and of none yet
FaixaPendente == [classificacao |-> "", cor |-> ""]
Faixa(s) == [classificacao |-> classificar(s), cor |-> cor_por_score(s)]

InitFaixas ==
    /\ arg \in Scores \cup {NaN}
    /\ ret = FaixaPendente
    /\ arg_ant = Pendente
    /\ ret_ant = FaixaPendente
    /\ PipeParado
    /\ CcaucParado
    /\ DemaisParados

ClassificarScore ==
    /\ ret = FaixaPendente
    /\ ret' = Faixa(arg)
    /\ UNCHANGED <<arg, arg_ant, ret_ant>>
    /\ UNCHANGED pipeVars
    /\ UNCHANGED ccaucVars
    /\ UNCHANGED demaisVars

\* a higher score, classified in turn
ScoreMaior(s) ==
    /\ ret # FaixaPendente
    /\ arg # NaN
    /\ s > arg
    /\ arg_ant' = arg
    /\ ret_ant' = ret
    /\ arg' = s
    /\ ret' = Faixa(s)
    /\ UNCHANGED pipeVars
    /\ UNCHANGED ccaucVars
    /\ UNCHANGED demaisVars

NextFaixas ==
    \/ ClassificarScore
    \/ \E s \in Scores : ScoreMaior(s)

SpecFaixas == InitFaixas /\ [][NextFaixas]_vars

----------------------------------------------------------------------------
(* pontuar_eorcam applied on its own: to a drawn ratio, then to any higher  *)
(* one.                                                                     *)

\* raw ratios: a grid of step 2.5 % from -5 % to 200 %, every hundredth
\* within JanelaRaw of a breakpoint, thirds of a hundredth next to each
\* breakpoint (means over three years), and the missing value
Grade(lo, hi, passo) == {h \in lo..hi : h % passo = 0}
Vizinhos(quebras) ==
    {V(h) : h \in UNION {(q - JanelaRaw)..(q + JanelaRaw) : q \in quebras}}
    \cup {[s |-> 3 * q + d, n |-> 3] : q \in quebras, d \in {-1, 1}}
ArgsEorcam ==
    {V(h) : h \in Grade(-500, 20000, 250)} \cup Vizinhos({7000, 9000, 10500, 12000})

\* x < y on raw ratios
MenorRaw(x, y) == x.s * y.n < y.s * x.n

InitEorcam ==
    /\ arg \in ArgsEorcam \cup {NaNRaw}
    /\ ret = Pendente
    /\ arg_ant = NaNRaw
    /\ ret_ant = Pendente
    /\ PipeParado
    /\ CcaucParado
    /\ DemaisParados

PontuarEorcam ==
    /\ ret = Pendente
    /\ ret' = pontuar_eorcam(arg)
    /\ UNCHANGED <<arg, arg_ant, ret_ant>>
    /\ UNCHANGED pipeVars
    /\ UNCHANGED ccaucVars
    /\ UNCHANGED demaisVars

\* a higher ratio, scored in turn
EorcamMaior(x) ==
    /\ ret # Pendente
    /\ ~IsNaRaw(arg)
    /\ MenorRaw(arg, x)
    /\ arg_ant' = arg
    /\ ret_ant' = ret
    /\ arg' = x
    /\ ret' = pontuar_eorcam(x)
    /\ UNCHANGED pipeVars
    /\ UNCHANGED ccaucVars
    /\ UNCHANGED demaisVars

NextEorcam ==
    \/ PontuarEorcam
    \/ \E x \in ArgsEorcam : EorcamMaior(x)

SpecEorcam == InitEorcam /\ [][NextEorcam]_vars

----------------------------------------------------------------------------
(* pontuar_rrestos applied on its own: to a drawn ratio, then to any higher *)
(* one.                                                                     *)

\* raw ratios: a grid of step 0.25 % from -5 % to 15 %, the neighbours of
\* each breakpoint, and the missing value
ArgsRrestos ==
    {V(h) : h \in Grade(-500, 1500, 25)} \cup Vizinhos({0, 300, 1000})

InitRrestos ==
    /\ arg \in ArgsRrestos \cup {NaNRaw}
    /\ ret = Pendente
    /\ arg_ant = NaNRaw
    /\ ret_ant = Pendente
    /\ PipeParado
    /\ CcaucParado
    /\ DemaisParados

PontuarRrestos ==
    /\ ret = Pendente
    /\ ret' = pontuar_rrestos(arg)
    /\ UNCHANGED <<arg, arg_ant, ret_ant>>
    /\ UNCHANGED pipeVars
    /\ UNCHANGED ccaucVars
    /\ UNCHANGED demaisVars

\* a higher ratio, scored in turn
RrestosMaior(x) ==
    /\ ret # Pendente
    /\ ~IsNaRaw(arg)
    /\ MenorRaw(arg, x)
    /\ arg_ant' = arg
    /\ ret_ant' = ret
    /\ arg' = x
    /\ ret' = pontuar_rrestos(x)
    /\ UNCHANGED pipeVars
    /\ UNCHANGED ccaucVars
    /\ UNCHANGED demaisVars

NextRrestos ==
    \/ PontuarRrestos
    \/ \E x \in ArgsRrestos : RrestosMaior(x)

SpecRrestos == InitRrestos /\ [][NextRrestos]_vars

----------------------------------------------------------------------------
(* Constants and normalisers of dca_scorer.py.  A DCA ratio is held as a    *)
(* raw record whose s counts hundred-thousandths (0.20 is V(20000)); a      *)
(* normalised value counts ten-thousandths, as in solvency.py.              *)

SCAIXA_CAP == -50000
SCAIXA_ANOMALIA == -50000

\* 0.50 * (1 - (-x / 0.50)) ** 2 in ten-thousandths, for w = x - SCAIXA_CAP
\* hundred-thousandths with 0 <= w < 50000: w * w / 500000.  Above 46340 the
\* square leaves the 32-bit integers, and the same quotient is taken as
\* 5000 - d * (100000 - d) / 500000 with d = 50000 - w.
Quadratico(w) ==
    IF w <= 46340 THEN RoundHE(w * w, 500000)
    ELSE LET d == 50000 - w IN 5000 - RoundHE(d * (100000 - d), 500000)

\* pontuar_scaixa with a ramp that climbs 0.20 instead of 0.25
pontuar_scaixa_rampa_curta(x) ==
    IF IsNaRaw(x) THEN NaN
    ELSE LET u == Max(x.s, SCAIXA_CAP) IN
         IF u >= 20000 THEN 10000
         ELSE IF u >= 10000 THEN 7500
         ELSE IF u >= 0 THEN 5000 + RoundHE(u, 5)
         ELSE Quadratico(u - SCAIXA_CAP)
pontuar_scaixa(x) ==
    IF IsNaRaw(x) THEN NaN
    ELSE LET u == Max(x.s, SCAIXA_CAP) IN
         IF u >= 20000 THEN 10000
         ELSE IF u >= 10000 THEN 7500
         ELSE IF u >= 0 THEN 5000 + RoundHE(u, 4)
         ELSE Quadratico(u - SCAIXA_CAP)

\* SIGMOID_PARAMS[porte] = (mu, k): mu in hundred-thousandths, k in tenths
SIGMOID_PARAMS ==
    ("micro" :> [mu |-> 2960, k |-> 986])
    @@ ("pequeno" :> [mu |-> 2760, k |-> 779])
    @@ ("médio" :> [mu |-> 3180, k |-> 962])
    @@ ("grande" :> [mu |-> 2280, k |-> 3062])

\* _porte with every boundary taken as "up to and including"
_porte_inclusivo(p) ==
    IF p <= 10000 THEN "micro"
    ELSE IF p <= 50000 THEN "pequeno"
    ELSE IF p <= 200000 THEN "médio"
    ELSE "grande"
_porte(p) ==
    IF p < 10000 THEN "micro"
    ELSE IF p < 50000 THEN "pequeno"
    ELSE IF p < 200000 THEN "médio"
    ELSE "grande"

\* round(1 / (1 + exp(-z)), 4) in ten-thousandths, for z = n millionths.
\* Below -9.91 the quotient rounds to 0.0000 and above 9.91 to 1.0000; in
\* between, the values the expression of the code takes at each n that the
\* ratios of ArgsAutonomia produce with the parameters of SIGMOID_PARAMS.
LOGISTICA ==
    {<<-6981360, 9>>, <<-6907160, 10>>, <<-6862560, 10>>, <<-5266040, 51>>,
     <<-4983160, 68>>, <<-4890560, 75>>, <<-3708040, 239>>,
     <<-3059160, 448>>, <<-2918560, 512>>, <<-2150040, 1043>>,
     <<-1135160, 2432>>, <<-946560, 2796>>, <<-865800, 2961>>,
     <<-857360, 2979>>, <<-670480, 3384>>, <<-592040, 3562>>,
     <<-404040, 4003>>, <<-373920, 4076>>, <<-211640, 4473>>,
     <<-197200, 4509>>, <<0, 5000>>, <<155800, 5389>>, <<216920, 5540>>,
     <<327180, 5811>>, <<788840, 6876>>, <<965960, 7243>>, <<1025440, 7360>>,
     <<1469760, 8130>>, <<2082160, 8892>>, <<2523960, 9258>>,
     <<2712840, 9378>>, <<2755800, 9402>>, <<2997440, 9525>>,
     <<4081960, 9834>>, <<4636840, 9904>>, <<4969440, 9931>>,
     <<5266640, 9949>>, <<5639960, 9965>>, <<6560840, 9986>>,
     <<6941440, 9990>>, <<7197960, 9993>>, <<8484840, 9998>>,
     <<8755960, 9998>>, <<8913440, 9999>>}
Logistica(n) ==
    IF n <= -9910000 THEN 0
    ELSE IF n >= 9910000 THEN 10000
    ELSE (CHOOSE p \in LOGISTICA : p[1] = n)[2]

\* what a call returns when SIGMOID_PARAMS[porte] raises KeyError
KeyError == -3

\* pontuar_autonomia scoring a ratio although the population is missing
pontuar_autonomia_sem_pop(x, p) ==
    IF IsNaRaw(x) THEN NaN
    ELSE LET porte_ == IF p = NaN THEN "grande" ELSE _porte(p) IN
         IF porte_ \notin DOMAIN SIGMOID_PARAMS THEN KeyError
         ELSE LET par == SIGMOID_PARAMS[porte_]
              IN  Logistica(par.k * (x.s - par.mu))
pontuar_autonomia(x, p) ==
    IF IsNaRaw(x) \/ p = NaN THEN NaN
    ELSE LET porte_ == _porte(p) IN
         IF porte_ \notin DOMAIN SIGMOID_PARAMS THEN KeyError
         ELSE LET par == SIGMOID_PARAMS[porte_]
              IN  Logistica(par.k * (x.s - par.mu))

----------------------------------------------------------------------------
(* pontuar_scaixa applied on its own: to a drawn ratio, then to any higher  *)
(* one.                                                                     *)

\* the breakpoints of pontuar_scaixa, in hundred-thousandths
QuebrasScaixa == {SCAIXA_CAP, 0, 10000, 20000}

\* ratios: a grid of step 0.02 from -0.60 to 0.30, every hundred-thousandth
\* within JanelaRaw of a breakpoint, and the missing value.  None of them
\* lands on a rounding tie of the fourth decimal, where the binary float of
\* the code and the exact quotient may round apart.
ArgsScaixa ==
    {V(u) : u \in Grade(-60000, 30000, 2000)}
    \cup {V(u) : u \in UNION {(q - JanelaRaw)..(q + JanelaRaw) : q \in QuebrasScaixa}}

InitScaixa ==
    /\ arg \in ArgsScaixa \cup {NaNRaw}
    /\ ret = Pendente
    /\ arg_ant = NaNRaw
    /\ ret_ant = Pendente
    /\ PipeParado
    /\ CcaucParado
    /\ DemaisParados

PontuarScaixa ==
    /\ ret = Pendente
    /\ ret' = pontuar_scaixa(arg)
    /\ UNCHANGED <<arg, arg_ant, ret_ant>>
    /\ UNCHANGED pipeVars
    /\ UNCHANGED ccaucVars
    /\ UNCHANGED demaisVars

\* a higher ratio, scored in turn
ScaixaMaior(x) ==
    /\ ret # Pendente
    /\ ~IsNaRaw(arg)
    /\ MenorRaw(arg, x)
    /\ arg_ant' = arg
    /\ ret_ant' = ret
    /\ arg' = x
    /\ ret' = pontuar_scaixa(x)
    /\ UNCHANGED pipeVars
    /\ UNCHANGED ccaucVars
    /\ UNCHANGED demaisVars

NextScaixa ==
    \/ PontuarScaixa
    \/ \E x \in ArgsScaixa : ScaixaMaior(x)

SpecScaixa == InitScaixa /\ [][NextScaixa]_vars

----------------------------------------------------------------------------
(* The four normalisers, each called once on a drawn argument: a present    *)
(* or a missing ratio and, for pontuar_autonomia, a known or a missing      *)
(* population.                                                              *)

Normalizadores ==
    {"pontuar_eorcam", "pontuar_rrestos", "pontuar_scaixa", "pontuar_autonomia"}

\* the boundaries of _porte
QuebrasPorte == {10000, 50000, 200000}

\* populations: a few sizes inside each bucket and the neighbours of each
\* boundary
Pops ==
    {0, 1, 5000, 30000, 100000, 1000000}
    \cup UNION {(q - 1)..(q + 1) : q \in QuebrasPorte}

\* autonomy ratios: a grid of step 0.02 from -0.04 to 0.14, the midpoint of
\* each sigmoid, and two ratios far up the curve
ArgsAutonomia ==
    {V(u) : u \in Grade(-4000, 14000, 2000) \cup {2280, 2760, 2960, 3180, 50000, 100000}}

ArgsDe(f) ==
    CASE f = "pontuar_eorcam"    -> ArgsEorcam
      [] f = "pontuar_rrestos"   -> ArgsRrestos
      [] f = "pontuar_scaixa"    -> ArgsScaixa
      [] f = "pontuar_autonomia" -> ArgsAutonomia

InitNormalizadores ==
    /\ fn \in Normalizadores
    /\ arg \in ArgsDe(fn) \cup {NaNRaw}
    /\ pop \in IF fn = "pontuar_autonomia" THEN Pops \cup {NaN} ELSE {Pendente}
    /\ porte = ""
    /\ ret = Pendente
    /\ arg_ant = NaNRaw
    /\ ret_ant = Pendente
    /\ PipeParado
    /\ CcaucParado
    /\ DcaParado
    /\ ColetoresParados

PontuarAutonomia ==
    /\ ret = Pendente
    /\ ret' = pontuar_autonomia(arg, pop)
    /\ porte' = IF IsNaRaw(arg) \/ pop = NaN THEN "" ELSE _porte(pop)
    /\ UNCHANGED <<fn, pop>>
    /\ UNCHANGED <<arg, arg_ant, ret_ant>>
    /\ UNCHANGED pipeVars
    /\ UNCHANGED ccaucVars
    /\ UNCHANGED dcaVars
    /\ UNCHANGED coletoresVars

NextNormalizadores ==
    \/ fn = "pontuar_eorcam" /\ PontuarEorcam
    \/ fn = "pontuar_rrestos" /\ PontuarRrestos
    \/ fn = "pontuar_scaixa" /\ PontuarScaixa
    \/ fn = "pontuar_autonomia" /\ PontuarAutonomia

SpecNormalizadores == InitNormalizadores /\ [][NextNormalizadores]_vars

----------------------------------------------------------------------------
(* The scoring pipeline: the input tables *)

Mun == 1..NumMun

\* the years of the grid (siconfi_processor.py crosses every municipality
\* with every year collected): the reference years and 2025
AnosGrade == ANOS_REF \cup {2025}

\* a row of siconfi_indicadores_pb.csv
NaoEntregue == [entregou_rreo |-> FALSE, eorcam |-> NaNRaw, rrestos_nproc_pct |-> NaNRaw]
Entregue(e, r) == [entregou_rreo |-> TRUE, eorcam |-> e, rrestos_nproc_pct |-> r]

\* yearly values: eorcam is None when receita_prevista is not positive,
\* rrestos_nproc_pct when receita_realizada or the arrears balance is missing
EorcamAno  == {NaNRaw, V(6000), V(9600)}
RrestosAno == {NaNRaw, V(-500), V(200), V(1200)}
LinhasAno  == {NaoEntregue} \cup {Entregue(e, r) : e \in EorcamAno, r \in RrestosAno}

\* the 2025 row: delivered, and left out of every indicator
LinhaFora == Entregue(V(20000), V(5000))

\* the municipality under test: any rows in 2020 and 2021, and 2022-2024
\* either all missing or all delivered with eorcam 95 % and no arrears
HistoricosSobTeste ==
    { [a \in AnosGrade |->
          IF a = 2020 THEN r1
          ELSE IF a = 2021 THEN r2
          ELSE IF a \in ANOS_REF THEN r3
          ELSE LinhaFora]
      : r1 \in LinhasAno, r2 \in LinhasAno,
        r3 \in {NaoEntregue, Entregue(V(9500), V(0))} }

\* the other municipalities, over which the state median is taken:
\* at most one delivered reference year
LinhasDeFundo == {NaoEntregue, Entregue(V(9500), V(600)), Entregue(V(8000), NaNRaw)}
HistoricosDeFundo ==
    { [a \in AnosGrade |->
          IF a = 2024 THEN r
          ELSE IF a \in ANOS_REF THEN NaoEntregue
          ELSE LinhaFora]
      : r \in LinhasDeFundo }

\* the pendencias cell of the municipality under test, when CAUC lists it
CaucSobTeste ==
    { Str(<<"REGULAR">>),
      Str(<<"CADIN">>),
      Str(<<"Regularidade FGTS", " ", "|", " ", "SICONFI RREO">>) }

LinhaCauc(p) == [pendencias |-> p, ccauc |-> NaN]

Init ==
    /\ pc = "qsiconfi"
    /\ \E h \in HistoricosSobTeste, g \in [Mun \ {1} -> HistoricosDeFundo] :
           df_si = [m \in Mun |-> IF m = 1 THEN h ELSE g[m]]
    /\ \/ \E c \in CaucSobTeste :
              df_ca = [m \in Mun |->
                          LinhaCauc(IF m = 1 THEN c ELSE Str(<<"REGULAR">>))]
       \/ df_ca = [m \in Mun \ {1} |-> LinhaCauc(Str(<<"REGULAR">>))]
    /\ df_qsi = <<>>
    /\ df_fis = <<>>
    /\ df = <<>>
    /\ mediana_rrestos = NaNRaw
    /\ mask_nan_rrestos = {}
    /\ pendencias_str = NaoStr
    /\ ccauc_ret = Pendente
    /\ ccauc_ant = Pendente
    /\ FnParado
    /\ DemaisParados

----------------------------------------------------------------------------
(* The scoring pipeline: helpers *)

\* the sum of f[a] over a in S
RECURSIVE SumOver(_, _)
SumOver(S, f) ==
    IF S = {} THEN 0
    ELSE LET a == CHOOSE b \in S : TRUE IN f[a] + SumOver(S \ {a}, f)

\* Series.mean(): the mean of the values that are not NaN (NaN when none is)
Mean(S, f) ==
    [s |-> SumOver(S, [a \in S |-> f[a].s]), n |-> SumOver(S, [a \in S |-> f[a].n])]

\* the values f[m], m in S, in non-decreasing order
RECURSIVE SortRaw(_, _)
SortRaw(S, f) ==
    IF S = {} THEN <<>>
    ELSE LET m == CHOOSE k \in S : \A j \in S : LeRaw(f[k], f[j])
         IN  <<f[m]>> \o SortRaw(S \ {m}, f)

\* the mean of two raw ratios
Mean2(a, b) == [s |-> a.s * b.n + b.s * a.n, n |-> 2 * a.n * b.n]

\* Series.median(): NaN values skipped; NaN when none is left; with the slip
\* of a zero median when none is left
MedianVaziaZero(q) ==
    IF Len(q) = 0 THEN V(0)
    ELSE IF Len(q) % 2 = 1 THEN q[(Len(q) + 1) \div 2]
    ELSE Mean2(q[Len(q) \div 2], q[Len(q) \div 2 + 1])
Median(q) ==
    IF Len(q) = 0 THEN NaNRaw
    ELSE IF Len(q) % 2 = 1 THEN q[(Len(q) + 1) \div 2]
    ELSE Mean2(q[Len(q) \div 2], q[Len(q) \div 2 + 1])

\* df_fis["rrestos_raw"].clip(lower=0).median(), with the clip left out
MedianaSemClip(fis) ==
    LET S == {m \in DOMAIN fis : ~IsNaRaw(fis[m].rrestos_raw)}
    IN  Median(SortRaw(S, [m \in S |-> fis[m].rrestos_raw]))
\* ... and with a missing value counted as zero arrears
MedianaFaltaZero(fis) ==
    LET S == DOMAIN fis
    IN  Median(SortRaw(S, [m \in S |-> IF IsNaRaw(fis[m].rrestos_raw)
                                        THEN V(0) ELSE Clamp0(fis[m].rrestos_raw)]))
MedianaRrestos(fis) ==
    LET S == {m \in DOMAIN fis : ~IsNaRaw(fis[m].rrestos_raw)}
    IN  Median(SortRaw(S, [m \in S |-> Clamp0(fis[m].rrestos_raw)]))

\* NaN propagates through the column arithmetic
Vezes(w, v) == IF v = NaN THEN NaN ELSE w * v
Soma4(a, b, c, d) ==
    IF a = NaN \/ b = NaN \/ c = NaN \/ d = NaN THEN NaN ELSE a + b + c + d
\* Series.fillna(0)
FillNa0(v) == IF v = NaN THEN 0 ELSE v
\* df["ccauc"].fillna(1.0): no CAUC row is the worst case; with the slip of
\* filling in the best case
FillNaCcaucZero(v) == IF v = NaN THEN 0 ELSE v
FillNaCcauc(v) == IF v = NaN THEN 10000 ELSE v
\* Series.round(1) of a sum of contributions, in tenths of a point
Round1(t) == IF t = NaN THEN NaN ELSE RoundHE(t, 1000)

----------------------------------------------------------------------------
(* The scoring pipeline: one action per section of solvency.py *)

\* the reference years of the grid, and those a municipality delivered
AnosRefDe(m) == {a \in DOMAIN df_si[m] : a \in ANOS_REF}
AnosEntregues(m) == {a \in AnosRefDe(m) : df_si[m][a].entregou_rreo}

\* 2. Qsiconfi: share of the reference years with a delivered RREO
Qsiconfi ==
    /\ pc = "qsiconfi"
    /\ df_qsi' = [m \in {k \in Mun : AnosRefDe(k) # {}} |->
                     (Cardinality(AnosEntregues(m)) * 10000) \div Cardinality(ANOS_REF)]
    /\ pc' = "fis"
    /\ UNCHANGED <<df_si, df_ca, df_fis, df, mediana_rrestos, mask_nan_rrestos>>
    /\ UNCHANGED ccaucVars
    /\ UNCHANGED fnVars
    /\ UNCHANGED demaisVars

\* 3. Eorcam and Rrestos: the mean over the delivered reference years
Fis ==
    /\ pc = "fis"
    /\ df_fis' = [m \in {k \in Mun : AnosEntregues(k) # {}} |->
                     [eorcam_raw  |-> Mean(AnosEntregues(m),
                                           [a \in AnosEntregues(m) |-> df_si[m][a].eorcam]),
                      rrestos_raw |-> Mean(AnosEntregues(m),
                                           [a \in AnosEntregues(m) |-> df_si[m][a].rrestos_nproc_pct]),
                      dado_suspeito |-> FALSE,
                      eorcam_norm   |-> NaN,
                      rrestos_norm  |-> NaN]]
    /\ pc' = "normalizar"
    /\ UNCHANGED <<df_si, df_ca, df_qsi, df, mediana_rrestos, mask_nan_rrestos>>
    /\ UNCHANGED ccaucVars
    /\ UNCHANGED fnVars
    /\ UNCHANGED demaisVars

\* rrestos_raw < 0 (False on NaN)
Suspeito(x) == ~IsNaRaw(x) /\ x.s < 0

\* the flag of a negative rrestos_raw, then the two normalisers
Normalizar ==
    /\ pc = "normalizar"
    /\ df_fis' = [m \in DOMAIN df_fis |->
                     [df_fis[m] EXCEPT
                         !.dado_suspeito = Suspeito(df_fis[m].rrestos_raw),
                         !.eorcam_norm   = pontuar_eorcam(df_fis[m].eorcam_raw),
                         !.rrestos_norm  = pontuar_rrestos(df_fis[m].rrestos_raw)]]
    /\ pc' = "cauc"
    /\ UNCHANGED <<df_si, df_ca, df_qsi, df, mediana_rrestos, mask_nan_rrestos>>
    /\ UNCHANGED ccaucVars
    /\ UNCHANGED fnVars
    /\ UNCHANGED demaisVars

\* 4. CAUC: the risk of each listed municipality
Cauc ==
    /\ pc = "cauc"
    /\ df_ca' = [m \in DOMAIN df_ca |->
                    [df_ca[m] EXCEPT !.ccauc = pontuar_ccauc(df_ca[m].pendencias)]]
    /\ pc' = "join"
    /\ UNCHANGED <<df_si, df_qsi, df_fis, df, mediana_rrestos, mask_nan_rrestos>>
    /\ UNCHANGED ccaucVars
    /\ UNCHANGED fnVars
    /\ UNCHANGED demaisVars

\* 5. the left joins on the master table, and the three fillna
Join ==
    /\ pc = "join"
    /\ df' = [m \in Mun |->
                 [eorcam_raw    |-> IF m \in DOMAIN df_fis THEN df_fis[m].eorcam_raw ELSE NaNRaw,
                  rrestos_raw   |-> IF m \in DOMAIN df_fis THEN df_fis[m].rrestos_raw ELSE NaNRaw,
                  dado_suspeito |-> IF m \in DOMAIN df_fis THEN df_fis[m].dado_suspeito ELSE FALSE,
                  eorcam_norm   |-> IF m \in DOMAIN df_fis THEN df_fis[m].eorcam_norm ELSE NaN,
                  rrestos_norm  |-> IF m \in DOMAIN df_fis THEN df_fis[m].rrestos_norm ELSE NaN,
                  qsiconfi      |-> IF m \in DOMAIN df_qsi THEN df_qsi[m] ELSE 0,
                  ccauc         |-> FillNaCcauc(IF m \in DOMAIN df_ca THEN df_ca[m].ccauc ELSE NaN),
                  contrib_eorcam   |-> NaN,
                  contrib_rrestos  |-> NaN,
                  contrib_qsiconfi |-> NaN,
                  contrib_ccauc    |-> NaN,
                  score            |-> NaN,
                  classificacao    |-> ""]]
    /\ pc' = "mediana"
    /\ UNCHANGED <<df_si, df_ca, df_qsi, df_fis, mediana_rrestos, mask_nan_rrestos>>
    /\ UNCHANGED ccaucVars
    /\ UNCHANGED fnVars
    /\ UNCHANGED demaisVars

\* the state median of the clamped raw arrears
Mediana ==
    /\ pc = "mediana"
    /\ mediana_rrestos' = MedianaRrestos(df_fis)
    /\ pc' = "fallback"
    /\ UNCHANGED <<df_si, df_ca, df_qsi, df_fis, df, mask_nan_rrestos>>
    /\ UNCHANGED ccaucVars
    /\ UNCHANGED fnVars
    /\ UNCHANGED demaisVars

\* the median applied to the rows with eorcam_raw and without rrestos_norm;
\* first with the slip of a mask that forgets rrestos_norm.isna()
FallbackTodos ==
    /\ pc = "fallback"
    /\ LET mask == {m \in Mun : ~IsNaRaw(df[m].eorcam_raw)}
       IN  /\ mask_nan_rrestos' = mask
           /\ df' = [m \in Mun |->
                        IF m \in mask
                        THEN [df[m] EXCEPT !.rrestos_norm = pontuar_rrestos(mediana_rrestos),
                                           !.rrestos_raw  = mediana_rrestos]
                        ELSE df[m]]
    /\ pc' = "formula"
    /\ UNCHANGED <<df_si, df_ca, df_qsi, df_fis, mediana_rrestos>>
    /\ UNCHANGED ccaucVars
    /\ UNCHANGED fnVars
    /\ UNCHANGED demaisVars
Fallback ==
    /\ pc = "fallback"
    /\ LET mask == {m \in Mun : df[m].rrestos_norm = NaN /\ ~IsNaRaw(df[m].eorcam_raw)}
       IN  /\ mask_nan_rrestos' = mask
           /\ df' = [m \in Mun |->
                        IF m \in mask
                        THEN [df[m] EXCEPT !.rrestos_norm = pontuar_rrestos(mediana_rrestos),
                                           !.rrestos_raw  = mediana_rrestos]
                        ELSE df[m]]
    /\ pc' = "formula"
    /\ UNCHANGED <<df_si, df_ca, df_qsi, df_fis, mediana_rrestos>>
    /\ UNCHANGED ccaucVars
    /\ UNCHANGED fnVars
    /\ UNCHANGED demaisVars

\* the contributions of one row
ContribEorcam(r)   == Vezes(PESOS.eorcam, FillNa0(r.eorcam_norm))
ContribRrestos(r)  == Vezes(PESOS.rrestos, r.rrestos_norm)
ContribQsiconfi(r) == Vezes(PESOS.qsiconfi, r.qsiconfi)
\* ... and the pendency risk inverted, with the inversion left out
ContribCcaucSemInverter(r) == Vezes(PESOS.ccauc, r.ccauc)
ContribCcauc(r)    == Vezes(PESOS.ccauc, 10000 - r.ccauc)

\* 6. the formula: four contributions and their rounded sum
Formula ==
    /\ pc = "formula"
    /\ df' = [m \in Mun |->
                 [df[m] EXCEPT
                     !.contrib_eorcam   = ContribEorcam(df[m]),
                     !.contrib_rrestos  = ContribRrestos(df[m]),
                     !.contrib_qsiconfi = ContribQsiconfi(df[m]),
                     !.contrib_ccauc    = ContribCcauc(df[m]),
                     !.score = Round1(Soma4(ContribEorcam(df[m]), ContribRrestos(df[m]),
                                            ContribQsiconfi(df[m]), ContribCcauc(df[m])))]]
    /\ pc' = "semdados"
    /\ UNCHANGED <<df_si, df_ca, df_qsi, df_fis, mediana_rrestos, mask_nan_rrestos>>
    /\ UNCHANGED ccaucVars
    /\ UNCHANGED fnVars
    /\ UNCHANGED demaisVars

\* the rows whose score is not computable, with the slip of asking for
\* both raw indicators to be missing
SemScoreAmbos(r) == IsNaRaw(r.eorcam_raw) /\ IsNaRaw(r.rrestos_raw)
SemScore(r) == IsNaRaw(r.eorcam_raw)

\* df.loc[df["eorcam_raw"].isna(), "score"] = None
SemDados ==
    /\ pc = "semdados"
    /\ df' = [m \in Mun |-> IF SemScore(df[m]) THEN [df[m] EXCEPT !.score = NaN] ELSE df[m]]
    /\ pc' = "classificar"
    /\ UNCHANGED <<df_si, df_ca, df_qsi, df_fis, mediana_rrestos, mask_nan_rrestos>>
    /\ UNCHANGED ccaucVars
    /\ UNCHANGED fnVars
    /\ UNCHANGED demaisVars

\* 7. the risk band of every row
Classificar ==
    /\ pc = "classificar"
    /\ df' = [m \in Mun |-> [df[m] EXCEPT !.classificacao = classificar(df[m].score)]]
    /\ pc' = "fim"
    /\ UNCHANGED <<df_si, df_ca, df_qsi, df_fis, mediana_rrestos, mask_nan_rrestos>>
    /\ UNCHANGED ccaucVars
    /\ UNCHANGED fnVars
    /\ UNCHANGED demaisVars

Next ==
    \/ Qsiconfi
    \/ Fis
    \/ Normalizar
    \/ Cauc
    \/ Join
    \/ Mediana
    \/ Fallback
    \/ Formula
    \/ SemDados
    \/ Classificar

Spec == Init /\ [][Next]_vars

----------------------------------------------------------------------------
(* carregar_dca: the table read from dca_indicadores_pb.csv and joined with *)
(* the populations, then one action per column it adds.                     *)

\* a row after read_csv and the left merge: a municipality missing from
\* municipios gets no population
LinhaDca(sc, au, po) == [scaixa_medio |-> sc, autonomia_media |-> au, populacao |-> po]

\* the first row takes every case: a cash ratio missing, within JanelaRaw of
\* SCAIXA_ANOMALIA, far below it or above it, with and without the autonomy
\* ratio and the population; the other rows are two of them
LinhasDcaSobTeste ==
    {LinhaDca(sc, au, po) :
        sc \in {NaNRaw, V(-60000), V(0), V(20000)}
               \cup {V(u) : u \in (SCAIXA_ANOMALIA - JanelaRaw)..(SCAIXA_ANOMALIA + JanelaRaw)},
        au \in {NaNRaw, V(2960)},
        po \in {NaN, 5000}}
LinhasDcaDeFundo ==
    {LinhaDca(NaNRaw, NaNRaw, NaN), LinhaDca(V(10000), V(2960), 30000)}

InitDca ==
    /\ pc_dca = "flag"
    /\ dca \in {t \in [Mun -> LinhasDcaSobTeste \cup LinhasDcaDeFundo] :
                   \A m \in Mun \ {1} : t[m] \in LinhasDcaDeFundo}
    /\ NormParado
    /\ ColetoresParados
    /\ PipeParado
    /\ CcaucParado
    /\ FnParado

\* the anomaly test of a cash ratio
SuspeitoScaixa(x) == ~IsNaRaw(x) /\ x.s < SCAIXA_ANOMALIA

FlagAnomalia ==
    /\ pc_dca = "flag"
    /\ dca' = [m \in Mun |->
                  [dado_suspeito |-> SuspeitoScaixa(dca[m].scaixa_medio)] @@ dca[m]]
    /\ pc_dca' = "scaixa_norm"
    /\ UNCHANGED normVars
    /\ UNCHANGED coletoresVars
    /\ UNCHANGED pipeVars
    /\ UNCHANGED ccaucVars
    /\ UNCHANGED fnVars

ScaixaNorm ==
    /\ pc_dca = "scaixa_norm"
    /\ dca' = [m \in Mun |->
                  [scaixa_norm |-> pontuar_scaixa(dca[m].scaixa_medio)] @@ dca[m]]
    /\ pc_dca' = "autonomia_norm"
    /\ UNCHANGED normVars
    /\ UNCHANGED coletoresVars
    /\ UNCHANGED pipeVars
    /\ UNCHANGED ccaucVars
    /\ UNCHANGED fnVars

AutonomiaNorm ==
    /\ pc_dca = "autonomia_norm"
    /\ dca' = [m \in Mun |->
                  [autonomia_norm |->
                      pontuar_autonomia(dca[m].autonomia_media, dca[m].populacao)]
                  @@ dca[m]]
    /\ pc_dca' = "contrib"
    /\ UNCHANGED normVars
    /\ UNCHANGED coletoresVars
    /\ UNCHANGED pipeVars
    /\ UNCHANGED ccaucVars
    /\ UNCHANGED fnVars

\* (PESO * norm).round(4): a weight times ten-thousandths is a whole number
\* of ten-thousandths of a point
ContribuicoesDca ==
    /\ pc_dca = "contrib"
    /\ dca' = [m \in Mun |->
                  [contrib_scaixa    |-> Vezes(PESO_SCAIXA, dca[m].scaixa_norm),
                   contrib_autonomia |-> Vezes(PESO_AUTONOMIA, dca[m].autonomia_norm)]
                  @@ dca[m]]
    /\ pc_dca' = "fim"
    /\ UNCHANGED normVars
    /\ UNCHANGED coletoresVars
    /\ UNCHANGED pipeVars
    /\ UNCHANGED ccaucVars
    /\ UNCHANGED fnVars

NextDca ==
    \/ FlagAnomalia
    \/ ScaixaNorm
    \/ AutonomiaNorm
    \/ ContribuicoesDca

SpecDca == InitDca /\ [][NextDca]_vars

----------------------------------------------------------------------------
(* The PNCP collector (pncp.py): main run again and again over the same     *)
(* checkpoint file.  The API answers each request as it pleases: the first  *)
(* page of a block fails for good, comes back empty, or brings data and the *)
(* number of pages; each later page is fetched or fails for good.           *)

\* the modalities collected here: two of the thirteen codes of MODALIDADES,
\* in the order of the dictionary
MODALIDADES == <<6, 8>>
NumMeses == 1
MaxPaginas == 2
MaxExecucoes == 2

\* the other collectors
foraPncp == <<sicVars, fetchVars, caucVars>>

\* the scorers stand still while a collector runs
ScoreParado ==
    /\ PipeParado
    /\ CcaucParado
    /\ FnParado
    /\ NormParado
    /\ DcaParado

ForaPncpParado ==
    /\ SicParado
    /\ FetchParado
    /\ CaucParado

\* the grid of main: every modality and, within it, every month
NumBlocos == Len(MODALIDADES) * NumMeses
\* chave of the block at place i of the grid: f"{cod_mod}_{mes}"
Chave(i) == <<MODALIDADES[((i - 1) \div NumMeses) + 1], ((i - 1) % NumMeses) + 1>>
Chaves == {Chave(i) : i \in 1..NumBlocos}

\* a line of the file: the records of one page of a block stand as one
\* record, and the marker of a block without data has no page
Registro(c, p) == [_chave |-> c, pagina |-> p, _sem_dados |-> FALSE]
MarcadorSemDados(c) == [_chave |-> c, pagina |-> 0, _sem_dados |-> TRUE]

\* the keys main finds in the file, with the slip of skipping the markers
ChavesLidasSemMarcador(f) ==
    {f[i]._chave : i \in {j \in 1..Len(f) : ~f[j]._sem_dados}}
ChavesLidas(f) == {f[i]._chave : i \in 1..Len(f)}

\* coletar_bloco: what it returns when the first page fails, comes back
\* empty, or brings data with total pages of which the later pages ok are
\* fetched.  paginas are the pages whose records it returns.
RetFalha(c) == [chave |-> c, paginas |-> {}, total_pags |-> 0, sucesso |-> FALSE]
RetVazio(c) == [chave |-> c, paginas |-> {}, total_pags |-> 0, sucesso |-> TRUE]
RetDados(c, total, ok) ==
    [chave |-> c, paginas |-> {1} \cup ok, total_pags |-> total, sucesso |-> TRUE]

\* the requests coletar_bloco issued for that return
Pedido(c, p, b) == [execucao |-> execucao, chave |-> c, pagina |-> p, ok |-> b]
PedidosDe(r) ==
    IF r.total_pags = 0 THEN {Pedido(r.chave, 1, r.sucesso)}
    ELSE {Pedido(r.chave, p, p \in r.paginas) : p \in 1..r.total_pags}

\* the lines main appends for a block, page by page; with the slip of
\* not testing sucesso
LinhasDe(c, pags) ==
    SelectSeq([p \in 1..MaxPaginas |-> Registro(c, p)], LAMBDA l : l.pagina \in pags)
EscreverMesmoFalho(r) ==
    IF r.paginas # {} THEN LinhasDe(r.chave, r.paginas)
    ELSE <<MarcadorSemDados(r.chave)>>
Escrever(r) ==
    IF ~r.sucesso THEN <<>>
    ELSE IF r.paginas # {} THEN LinhasDe(r.chave, r.paginas)
    ELSE <<MarcadorSemDados(r.chave)>>

InitPncp ==
    /\ pc_pncp = "inicio"
    /\ execucao = 1
    /\ snap_jsonl = <<>>
    /\ chaves_feitas = {}
    /\ pos = 0
    /\ ret_bloco = SemRetorno
    /\ pedidos = {}
    /\ escritas = {}
    /\ ScoreParado
    /\ ForaPncpParado

\* main reads the checkpoint and enters the loop
LerCheckpoint ==
    /\ pc_pncp = "inicio"
    /\ chaves_feitas' = ChavesLidas(snap_jsonl)
    /\ pos' = 1
    /\ pc_pncp' = "laco"
    /\ UNCHANGED <<execucao, snap_jsonl, ret_bloco, pedidos, escritas>>
    /\ UNCHANGED scoreVars
    /\ UNCHANGED foraPncp

\* if chave in chaves_feitas: continue
PularBloco ==
    /\ pc_pncp = "laco"
    /\ pos <= NumBlocos
    /\ Chave(pos) \in chaves_feitas
    /\ pos' = pos + 1
    /\ UNCHANGED <<pc_pncp, execucao, snap_jsonl, chaves_feitas, ret_bloco, pedidos, escritas>>
    /\ UNCHANGED scoreVars
    /\ UNCHANGED foraPncp

\* one turn of the loop for a block not in chaves_feitas: coletar_bloco
\* returns r, and main writes what it writes for r
Iteracao(r) ==
    /\ pc_pncp = "laco"
    /\ pos <= NumBlocos
    /\ Chave(pos) \notin chaves_feitas
    /\ r.chave = Chave(pos)
    /\ ret_bloco' = r
    /\ pedidos' = pedidos \cup PedidosDe(r)
    /\ snap_jsonl' = snap_jsonl \o Escrever(r)
    /\ escritas' = IF Escrever(r) = <<>> THEN escritas
                   ELSE escritas \cup {[execucao |-> execucao, chave |-> r.chave]}
    /\ pos' = pos + 1
    /\ UNCHANGED <<pc_pncp, execucao, chaves_feitas>>
    /\ UNCHANGED scoreVars
    /\ UNCHANGED foraPncp

BlocoFalhou == \E c \in Chaves : Iteracao(RetFalha(c))
BlocoVazio  == \E c \in Chaves : Iteracao(RetVazio(c))
BlocoComDados ==
    \E c \in Chaves, total \in 1..MaxPaginas :
        \E ok \in SUBSET (2..total) : Iteracao(RetDados(c, total, ok))

\* the grid is through; main goes on to consolidate the file
FimDoLaco ==
    /\ pc_pncp = "laco"
    /\ pos > NumBlocos
    /\ pc_pncp' = "fim"
    /\ UNCHANGED <<execucao, snap_jsonl, chaves_feitas, pos, ret_bloco, pedidos, escritas>>
    /\ UNCHANGED scoreVars
    /\ UNCHANGED foraPncp

\* the script is started again
NovaExecucao ==
    /\ pc_pncp = "fim"
    /\ execucao < MaxExecucoes
    /\ execucao' = execucao + 1
    /\ pc_pncp' = "inicio"
    /\ chaves_feitas' = {}
    /\ pos' = 0
    /\ UNCHANGED <<snap_jsonl, ret_bloco, pedidos, escritas>>
    /\ UNCHANGED scoreVars
    /\ UNCHANGED foraPncp

NextPncp ==
    \/ LerCheckpoint
    \/ PularBloco
    \/ BlocoFalhou
    \/ BlocoVazio
    \/ BlocoComDados
    \/ FimDoLaco
    \/ NovaExecucao

SpecPncp == InitPncp /\ [][NextPncp]_vars

----------------------------------------------------------------------------
(* The SICONFI crawler (siconfi.py): orquestrar_coleta gathers the RREO     *)
(* coroutines and, when all of them have returned, the RGF ones.  Each      *)
(* coroutine waits for a slot of the semaphore, pages through its request   *)
(* inside "async with semaforo", and gives the slot back as it leaves.      *)

MAX_CONCORRENCIA == 10
NumTarefasRreo == 11
NumTarefasRgf == 1
MaxPaginasExtra == 1

TarefasRreo == 1..NumTarefasRreo
TarefasRgf  == (NumTarefasRreo + 1)..(NumTarefasRreo + NumTarefasRgf)
Tarefas     == TarefasRreo \cup TarefasRgf

foraSic == <<pncpVars, fetchVars, caucVars>>
ForaSicParado ==
    /\ PncpParado
    /\ FetchParado
    /\ CaucParado


\* Semaphore.acquire and release on the count of free slots; with the slip
\* of a release that gives nothing back
NaoLiberar(v) == v
Liberar(v) == v + 1
Adquirir(v) == v - 1

\* asyncio.gather(*tarefas_rreo) has scheduled the RREO coroutines; the RGF
\* ones are created and not yet awaited
InitSiconfi ==
    /\ semaforo = MAX_CONCORRENCIA
    /\ tarefa = [t \in Tarefas |-> IF t \in TarefasRreo THEN "espera" ELSE "criada"]
    /\ paginas = 0
    /\ ScoreParado
    /\ ForaSicParado

\* asyncio.gather(*tarefas_rgf), reached when every RREO coroutine returned
GatherRgf ==
    /\ \A t \in TarefasRreo : tarefa[t] = "fim"
    /\ \E t \in TarefasRgf : tarefa[t] = "criada"
    /\ tarefa' = [t \in Tarefas |-> IF t \in TarefasRgf THEN "espera" ELSE tarefa[t]]
    /\ UNCHANGED <<semaforo, paginas>>
    /\ UNCHANGED scoreVars
    /\ UNCHANGED foraSic

\* async with semaforo: the coroutine enters when a slot is free.  The
\* coroutines reach the semaphore in the order gather was given them, and
\* the semaphore wakes its waiters in the order they arrived.
Entrar(t) ==
    /\ tarefa[t] = "espera"
    /\ \A u \in Tarefas : u < t => tarefa[u] # "espera"
    /\ semaforo > 0
    /\ semaforo' = Adquirir(semaforo)
    /\ tarefa' = [tarefa EXCEPT ![t] = "laco"]
    /\ UNCHANGED paginas
    /\ UNCHANGED scoreVars
    /\ UNCHANGED foraSic

\* a page with items and hasMore: offset += 5000 and the loop goes round
OutraPagina(t) ==
    /\ tarefa[t] = "laco"
    /\ paginas < MaxPaginasExtra
    /\ paginas' = paginas + 1
    /\ UNCHANGED <<semaforo, tarefa>>
    /\ UNCHANGED scoreVars
    /\ UNCHANGED foraSic

\* the coroutine leaves the loop and "async with" gives the slot back
Sair(t) ==
    /\ tarefa[t] = "laco"
    /\ semaforo' = Liberar(semaforo)
    /\ tarefa' = [tarefa EXCEPT ![t] = "fim"]
    /\ UNCHANGED paginas
    /\ UNCHANGED scoreVars
    /\ UNCHANGED foraSic

\* ... because fetch_com_retry returned None
SairFalha(t) == Sair(t)
\* ... because the payload has no "items"
SairSemItems(t) == Sair(t)
\* ... because the page says hasMore is false
SairUltimaPagina(t) == Sair(t)

NextSiconfi ==
    \/ GatherRgf
    \/ \E t \in Tarefas : Entrar(t)
    \/ \E t \in Tarefas : OutraPagina(t)
    \/ \E t \in Tarefas : SairFalha(t)
    \/ \E t \in Tarefas : SairSemItems(t)
    \/ \E t \in Tarefas : SairUltimaPagina(t)

SpecSiconfi == InitSiconfi /\ [][NextSiconfi]_vars

\* the event loop runs a coroutine that can run, and every request of a
\* coroutine in the loop is answered (the client has a timeout of 45 s and
\* fetch_com_retry gives up after its attempts)
SpecSiconfiJusta == SpecSiconfi /\ WF_vars(NextSiconfi)

----------------------------------------------------------------------------
(* fetch_com_retry (siconfi.py): one call, the server answering each GET as *)
(* it pleases.  A response with status 200 carries a JSON body.             *)

MaxTentativas == 3

foraFetch == <<pncpVars, sicVars, caucVars>>
ForaFetchParado ==
    /\ PncpParado
    /\ SicParado
    /\ CaucParado

\* what a GET may bring: a status code, or httpx.RequestError raised
Respostas == {"200", "429", "400", "403", "404", "500", "RequestError"}

\* the statuses on which the call gives up at once; with the slip of
\* leaving 404 out
DefinitivosSem404 == {"400"}
Definitivos == {"400", "404"}

InitFetch ==
    /\ pc_fetch = "laco"
    /\ tentativas \in 0..MaxTentativas
    /\ tentativa = 0
    /\ respostas = <<>>
    /\ esperas = <<>>
    /\ retorno = ""
    /\ ScoreParado
    /\ ForaFetchParado

\* one turn of the loop: the GET and what follows from its answer
Tentar(r) ==
    /\ pc_fetch = "laco"
    /\ tentativa < tentativas
    /\ respostas' = Append(respostas, r)
    /\ IF r = "200"
       THEN /\ retorno' = "json"
            /\ pc_fetch' = "fim"
            /\ UNCHANGED <<tentativa, esperas>>
       ELSE IF r \in Definitivos
       THEN /\ retorno' = "None"
            /\ pc_fetch' = "fim"
            /\ UNCHANGED <<tentativa, esperas>>
       ELSE /\ esperas' = Append(esperas, 2 ^ tentativa)
            /\ tentativa' = tentativa + 1
            /\ UNCHANGED <<pc_fetch, retorno>>
    /\ UNCHANGED tentativas
    /\ UNCHANGED scoreVars
    /\ UNCHANGED foraFetch

Sucesso == Tentar("200")
LimiteDeTaxa == Tentar("429")
ErroDefinitivo == \E r \in Definitivos : Tentar(r)
OutroErroHttp ==
    \E r \in Respostas \ ({"200", "429", "RequestError"} \cup Definitivos) : Tentar(r)
ErroDeRede == Tentar("RequestError")

\* the loop is through: return None
Esgotar ==
    /\ pc_fetch = "laco"
    /\ tentativa >= tentativas
    /\ retorno' = "None"
    /\ pc_fetch' = "fim"
    /\ UNCHANGED <<tentativas, tentativa, respostas, esperas>>
    /\ UNCHANGED scoreVars
    /\ UNCHANGED foraFetch

NextFetch ==
    \/ Sucesso
    \/ LimiteDeTaxa
    \/ ErroDefinitivo
    \/ OutroErroHttp
    \/ ErroDeRede
    \/ Esgotar

SpecFetch == InitFetch /\ [][NextFetch]_vars

\* every awaited GET and sleep completes (the client has a timeout)
SpecFetchJusta == SpecFetch /\ WF_vars(NextFetch)

----------------------------------------------------------------------------
(* The CAUC collector (cauc.py) and the scorer that reads its file: one row *)
(* of the national CSV is turned into the pendencias cell, and the cell is  *)
(* scored by pontuar_ccauc.                                                 *)

MaxPendentes == 2

\* REQUISITOS: the column of each requirement and its name, in the order of
\* the dictionary
REQUISITOS ==
    <<
       [col |-> "1.1", nome |-> "Regularidade Previdenciária (RPPS)"],
       [col |-> "1.2", nome |-> "Regularidade Fiscal (RFB)"],
       [col |-> "1.3", nome |-> "Regularidade PGFN"],
       [col |-> "1.4", nome |-> "Regularidade FGTS"],
       [col |-> "1.5", nome |-> "Regularidade Trabalhista (TST)"],
       [col |-> "2.1.1", nome |-> "LRF - Limite Pessoal Executivo"],
       [col |-> "2.1.2", nome |-> "LRF - Limite Pessoal Legislativo"],
       [col |-> "3.1.1", nome |-> "SIOPS (Saúde)"],
       [col |-> "3.1.2", nome |-> "SIOPS Demonstrativo"],
       [col |-> "3.2.1", nome |-> "SIOPE (Educação)"],
       [col |-> "3.2.2", nome |-> "SIOPE Demonstrativo"],
       [col |-> "3.2.3", nome |-> "SIOPE Complementar"],
       [col |-> "3.2.4", nome |-> "SIOPE Observações"],
       [col |-> "3.3", nome |-> "SIGA (Alimentação Escolar)"],
       [col |-> "3.4.1", nome |-> "SICONV/TRANSFEREGOV Prestação de Contas"],
       [col |-> "3.4.2", nome |-> "SICONV/TRANSFEREGOV Débitos"],
       [col |-> "3.5", nome |-> "CADIN"],
       [col |-> "3.6", nome |-> "Adimplência TCU"],
       [col |-> "3.7", nome |-> "Adimplência CGU"],
       [col |-> "4.1", nome |-> "SISTN (Dívida Consolidada)"],
       [col |-> "4.2", nome |-> "SISTN (Garantias)"],
       [col |-> "5.1", nome |-> "SICONFI RREO"],
       [col |-> "5.2", nome |-> "SICONFI RGF"],
       [col |-> "5.3", nome |-> "SICONFI Balanço Anual"],
       [col |-> "5.4", nome |-> "SICONFI DCA"],
       [col |-> "5.5", nome |-> "SICONFI PCASP"],
       [col |-> "5.6", nome |-> "SICONFI DCASP"],
       [col |-> "5.7", nome |-> "SICONFI MCASP"]
    >>
Colunas == 1..Len(REQUISITOS)

foraCauc == <<pncpVars, sicVars, fetchVars>>
ForaCaucParado ==
    /\ PncpParado
    /\ SicParado
    /\ FetchParado

\* the cell of a requirement that is met carries the date of the proof
EmDia == <<"2024-05-31">>
\* the cells that mark a requirement as pending
Marcas == {<<"!">>, <<>>, <<" ">>}

\* the sets of at most k columns
RECURSIVE ColunasAte(_)
ColunasAte(k) ==
    IF k = 0 THEN {{}}
    ELSE LET prev == ColunasAte(k - 1)
         IN  prev \cup {P \cup {c} : P \in prev, c \in Colunas}

\* rows with at most MaxPendentes cells that are not a date
LinhasCauc ==
    {[c \in Colunas |-> IF c \in DOMAIN v THEN v[c] ELSE EmDia] :
        v \in UNION {[P -> Marcas] : P \in ColunasAte(MaxPendentes)}}

\* row.get(c, "").strip() in ("!", "")
EmAberto(cel) == strip(cel) \in {<<"!">>, <<>>}

\* [REQUISITOS[c] for c in colunas_req if ...]: the names of the pending
\* requirements, in the order of the columns
RECURSIVE PendenciasDesde(_, _)
PendenciasDesde(linha, c) ==
    IF c > Len(REQUISITOS) THEN <<>>
    ELSE (IF EmAberto(linha[c]) THEN <<REQUISITOS[c].nome>> ELSE <<>>)
         \o PendenciasDesde(linha, c + 1)
PendenciasDe(linha) == PendenciasDesde(linha, 1)

\* sep.join(nomes), as tokens; and the cell written for a list of names,
\* with the slip of joining with a comma
RECURSIVE join(_, _)
join(sep, nomes) ==
    IF nomes = <<>> THEN <<>>
    ELSE IF Len(nomes) = 1 THEN <<nomes[1]>>
    ELSE <<nomes[1]>> \o sep \o join(sep, Tail(nomes))
CelulaComVirgula(nomes) ==
    IF nomes # <<>> THEN join(<<",", " ">>, nomes) ELSE <<"REGULAR">>
Celula(nomes) ==
    IF nomes # <<>> THEN join(<<" ", "|", " ">>, nomes) ELSE <<"REGULAR">>

\* to_csv then read_csv on a text cell: an empty field reads as NaN
LerCsv(txt) == IF txt = <<>> THEN NaoStr ELSE Str(txt)

InitCauc ==
    /\ pc_cauc = "coletar"
    /\ linha_cauc \in LinhasCauc
    /\ CcaucParado
    /\ PipeParado
    /\ FnParado
    /\ NormParado
    /\ DcaParado
    /\ ForaCaucParado

\* cauc.py writes the pendencias cell of the row; solvency.py reads it
Coletar ==
    /\ pc_cauc = "coletar"
    /\ pendencias_str' = LerCsv(Celula(PendenciasDe(linha_cauc)))
    /\ pc_cauc' = "pontuar"
    /\ UNCHANGED <<linha_cauc, ccauc_ret, ccauc_ant>>
    /\ UNCHANGED <<pipeVars, fnVars, normVars, dcaVars>>
    /\ UNCHANGED foraCauc

\* df_ca["pendencias"].apply(pontuar_ccauc)
PontuarLinha ==
    /\ pc_cauc = "pontuar"
    /\ ccauc_ret' = pontuar_ccauc(pendencias_str)
    /\ pc_cauc' = "fim"
    /\ UNCHANGED <<linha_cauc, pendencias_str, ccauc_ant>>
    /\ UNCHANGED <<pipeVars, fnVars, normVars, dcaVars>>
    /\ UNCHANGED foraCauc

NextCauc ==
    \/ Coletar
    \/ PontuarLinha

SpecCauc == InitCauc /\ [][NextCauc]_vars

----------------------------------------------------------------------------
(* Properties of the pipeline's result *)

Fim == pc = "fim"
PosFallback == pc \in {"formula", "semdados", "classificar", "fim"}
Faixas == {"Risco Baixo", "Risco Médio", "Risco Alto", "Crítico"}
Abs(x) == IF x < 0 THEN -x ELSE x

\* the raw arrears of a municipality as section 3 computed it (NaN when it
\* delivered nothing), before the fallback overwrites the column
RrestosBruto(m) == IF m \in DOMAIN df_fis THEN df_fis[m].rrestos_raw ELSE NaNRaw
\* the municipalities that have a raw arrears value
ComRrestos == {k \in DOMAIN df_fis : ~IsNaRaw(df_fis[k].rrestos_raw)}

(* C1: at the end of the run every row of the master table whose eorcam_raw *)
(* is missing has an undefined score and the class "Sem Dados", never a     *)
(* number, although its contrib_qsiconfi and contrib_ccauc are numbers.     *)
C1_SemSiconfiSemScore ==
    Fim => \A m \in Mun :
        IsNaRaw(df[m].eorcam_raw) =>
            /\ df[m].score = NaN
            /\ df[m].classificacao = "Sem Dados"
            /\ df[m].contrib_qsiconfi # NaN
            /\ df[m].contrib_ccauc # NaN

\* a row without eorcam_raw whose four contributions are all numbers
C1_Witness ==
    Fim /\ \E m \in Mun :
        /\ IsNaRaw(df[m].eorcam_raw)
        /\ df[m].contrib_qsiconfi > 0
        /\ df[m].contrib_ccauc > 0
        /\ df[m].contrib_rrestos # NaN
        /\ df[m].score = NaN

(* C2: every defined score is the sum of the four exported contributions,   *)
(* 31 x eorcam_norm, 25 x rrestos_norm, 19 x qsiconfi and 25 x (1 - ccauc), *)
(* rounded once to one decimal (the nearest tenth, a tie to the even one).  *)
C2_ScoreSomaContribuicoes ==
    Fim => \A m \in Mun :
        df[m].score # NaN =>
            LET r == df[m]
                t == r.contrib_eorcam + r.contrib_rrestos
                     + r.contrib_qsiconfi + r.contrib_ccauc
            IN  /\ r.eorcam_norm # NaN /\ r.rrestos_norm # NaN
                /\ r.contrib_eorcam   = 31 * r.eorcam_norm
                /\ r.contrib_rrestos  = 25 * r.rrestos_norm
                /\ r.contrib_qsiconfi = 19 * r.qsiconfi
                /\ r.contrib_ccauc    = 25 * (10000 - r.ccauc)
                /\ Abs(1000 * r.score - t) <= 500
                /\ (Abs(1000 * r.score - t) = 500 => r.score % 2 = 0)

\* a scored row with a partial pendency risk, a partial eorcam_norm and a
\* sum that the rounding changes
C2_Witness ==
    Fim /\ \E m \in Mun :
        /\ df[m].score # NaN
        /\ df[m].ccauc \notin {0, 10000}
        /\ df[m].eorcam_norm \notin {0, 10000}
        /\ (df[m].contrib_eorcam + df[m].contrib_rrestos
            + df[m].contrib_qsiconfi + df[m].contrib_ccauc) % 1000 # 0

(* C3: every defined score lies between 0 and 100, and each contribution of *)
(* a scored row between 0 and its weight.                                   *)
C3_ScoreEntre0e100 ==
    Fim => \A m \in Mun :
        df[m].score # NaN =>
            /\ 0 <= df[m].score /\ df[m].score <= 1000
            /\ 0 <= df[m].contrib_eorcam   /\ df[m].contrib_eorcam   <= 31 * 10000
            /\ 0 <= df[m].contrib_rrestos  /\ df[m].contrib_rrestos  <= 25 * 10000
            /\ 0 <= df[m].contrib_qsiconfi /\ df[m].contrib_qsiconfi <= 19 * 10000
            /\ 0 <= df[m].contrib_ccauc    /\ df[m].contrib_ccauc    <= 25 * 10000

\* a row with negative raw arrears that reaches the full 100 points
C3_Witness ==
    Fim /\ \E m \in Mun : df[m].score = 1000 /\ Suspeito(RrestosBruto(m))

(* C7 as stated: a municipality that delivered in some reference year         *)
(* (qsiconfi > 0) and has no eorcam_norm still gets a defined score, with a *)
(* budget-execution contribution of 0.                                      *)
C7_EorcamAusenteAindaPontua ==
    Fim => \A m \in Mun :
        (df[m].qsiconfi > 0 /\ df[m].eorcam_norm = NaN) =>
            (df[m].score # NaN /\ df[m].contrib_eorcam = 0)

(* C8 as stated: a municipality with negative raw arrears is scored with    *)
(* rrestos_norm 1.0 (contribution 25), is flagged dado_suspeito and still   *)
(* gets a score and a risk band; no other municipality is flagged.          *)
C8_NegativoPontuadoEMarcado ==
    Fim => \A m \in Mun :
        /\ Suspeito(RrestosBruto(m)) =>
               /\ df[m].rrestos_norm = 10000
               /\ df[m].contrib_rrestos = 25 * 10000
               /\ df[m].dado_suspeito
               /\ df[m].score # NaN
               /\ df[m].classificacao \in Faixas
        /\ ~Suspeito(RrestosBruto(m)) => ~df[m].dado_suspeito

(* C9 as stated: a municipality without a CAUC row gets ccauc = 1.0 and a   *)
(* pendency contribution of 0, and a defined score whenever it has SICONFI  *)
(* data (eorcam_raw present).                                               *)
C9_SemCaucPiorCasoComScore ==
    Fim => \A m \in Mun \ DOMAIN df_ca :
        /\ df[m].ccauc = 10000
        /\ df[m].contrib_ccauc = 0
        /\ ~IsNaRaw(df[m].eorcam_raw) => df[m].score # NaN

(* C9, amended: a municipality without a CAUC row gets ccauc = 1.0 and a    *)
(* pendency contribution of 0; its score is defined whenever its eorcam_raw *)
(* is present and some municipality has a raw arrears value (its own value  *)
(* or the one the state median is taken from).                              *)
C9_SemCaucPiorCaso ==
    Fim => \A m \in Mun \ DOMAIN df_ca :
        /\ df[m].ccauc = 10000
        /\ df[m].contrib_ccauc = 0
        /\ (~IsNaRaw(df[m].eorcam_raw) /\ ComRrestos # {}) => df[m].score # NaN

\* a municipality without a CAUC row, scored through the arrears fallback
C9_Witness ==
    Fim /\ \E m \in Mun \ DOMAIN df_ca :
        /\ m \in mask_nan_rrestos
        /\ df[m].score # NaN
        /\ df[m].ccauc = 10000

\* v is the k-th smallest of the values f[j], j in S
LtRaw(x, y) == x.s * y.n < y.s * x.n
KEsimo(S, f, k, v) ==
    /\ Cardinality({j \in S : LtRaw(f[j], v)}) <= k - 1
    /\ Cardinality({j \in S : LeRaw(f[j], v)}) >= k
\* x is the median of the values f[j], j in S: the middle one, or the mean
\* of the two middle ones; NaN when there is none
EhMediana(x, S, f) ==
    IF S = {} THEN IsNaRaw(x)
    ELSE /\ ~IsNaRaw(x)
         /\ \E a \in S, b \in S :
                /\ KEsimo(S, f, (Cardinality(S) + 1) \div 2, f[a])
                /\ KEsimo(S, f, Cardinality(S) \div 2 + 1, f[b])
                /\ x.s * (2 * f[a].n * f[b].n) = (f[a].s * f[b].n + f[b].s * f[a].n) * x.n

(* C10: once the fallback has run, mediana_rrestos is the median of the raw *)
(* arrears, each clamped to >= 0, of the municipalities that have one, and  *)
(* every municipality with eorcam_raw and without raw arrears has           *)
(* rrestos_norm = pontuar_rrestos(mediana_rrestos): one value for all.      *)
C10_FallbackPontuaMediana ==
    PosFallback =>
        /\ EhMediana(mediana_rrestos, ComRrestos,
                     [k \in ComRrestos |->
                         [s |-> Max(df_fis[k].rrestos_raw.s, 0), n |-> df_fis[k].rrestos_raw.n]])
        /\ \A m \in DOMAIN df_fis :
               (~IsNaRaw(df_fis[m].eorcam_raw) /\ IsNaRaw(df_fis[m].rrestos_raw)) =>
                   /\ m \in mask_nan_rrestos
                   /\ df[m].rrestos_norm = pontuar_rrestos(mediana_rrestos)

\* a fallback row scored strictly between 0 and 1 from a median of two
\* values, one of them a clamped negative
C10_Witness ==
    /\ PosFallback
    /\ Cardinality(ComRrestos) = 2
    /\ \E k \in ComRrestos : df_fis[k].rrestos_raw.s < 0
    /\ \E m \in mask_nan_rrestos : df[m].rrestos_norm \notin {NaN, 0, 10000}

\* the raw arrears of the municipalities that have one, each clamped to >= 0
RrestosClampados ==
    [k \in ComRrestos |->
        [s |-> Max(df_fis[k].rrestos_raw.s, 0), n |-> df_fis[k].rrestos_raw.n]]

(* C11: the state median is set in one step only, the one before the        *)
(* fallback: at that step no row of the master table has been overwritten   *)
(* and the value set is the median of the clamped raw arrears of exactly    *)
(* the municipalities that have one; the step that overwrites rrestos_raw   *)
(* with the median, and every later step, leaves the median and the table   *)
(* it was taken from untouched; and no row has a contribution or a score    *)
(* before the fallback has been applied.                                    *)
C11_DuasFases ==
    [][ /\ mediana_rrestos' # mediana_rrestos =>
               /\ pc = "mediana"
               /\ mask_nan_rrestos = {}
               /\ \A m \in Mun : df[m].rrestos_raw = RrestosBruto(m)
        /\ pc = "mediana" =>
               EhMediana(mediana_rrestos', ComRrestos, RrestosClampados)
        /\ pc \in {"fallback", "formula", "semdados", "classificar"} =>
               /\ mediana_rrestos' = mediana_rrestos
               /\ df_fis' = df_fis
        /\ pc \in {"join", "mediana"} =>
               \A m \in Mun :
                   /\ df'[m].score = NaN
                   /\ df'[m].contrib_rrestos = NaN
                   /\ df'[m].contrib_eorcam = NaN
        /\ pc = "fallback" =>
               \A m \in Mun :
                   /\ df[m].score = NaN
                   /\ df'[m].score = NaN
                   /\ m \in mask_nan_rrestos' => df'[m].rrestos_raw = mediana_rrestos
      ]_vars

\* the fallback has overwritten a row with a median taken from two other
\* rows, and the row has then been scored
C11_Witness ==
    /\ pc = "semdados"
    /\ Cardinality(ComRrestos) = 2
    /\ \E m \in mask_nan_rrestos :
           /\ df[m].rrestos_raw = mediana_rrestos
           /\ ~IsNaRaw(mediana_rrestos)
           /\ IsNaRaw(RrestosBruto(m))
           /\ df[m].score # NaN

(* C12: when no municipality has a raw arrears value, the state median is   *)
(* undefined and every municipality that takes the arrears fallback ends    *)
(* with an undefined rrestos_norm, an undefined score and the class "Sem    *)
(* Dados": none of them gets a number.                                      *)
C12_SemMedianaSemScore ==
    (Fim /\ ComRrestos = {}) =>
        /\ IsNaRaw(mediana_rrestos)
        /\ \A m \in Mun :
               (m \in mask_nan_rrestos \/ IsNaRaw(RrestosBruto(m))) =>
                   /\ df[m].rrestos_norm = NaN
                   /\ df[m].contrib_rrestos = NaN
                   /\ df[m].score = NaN
                   /\ df[m].classificacao = "Sem Dados"

\* no raw arrears value anywhere, and a fallback row whose other three
\* contributions are all positive
C12_Witness ==
    /\ Fim
    /\ ComRrestos = {}
    /\ \E m \in mask_nan_rrestos :
           /\ df[m].contrib_eorcam > 0
           /\ df[m].contrib_qsiconfi > 0
           /\ df[m].contrib_ccauc > 0
           /\ df[m].score = NaN

\* the raw indicators of municipality m as its own input rows give them
EorcamProprio(m) ==
    Mean(AnosEntregues(m), [a \in AnosEntregues(m) |-> df_si[m][a].eorcam])
RrestosProprio(m) ==
    Mean(AnosEntregues(m), [a \in AnosEntregues(m) |-> df_si[m][a].rrestos_nproc_pct])
\* the outputs of municipality m as a function of its own input rows and of
\* the arrears value rr that is scored for it
SaidaDe(m, rr) ==
    LET en == pontuar_eorcam(EorcamProprio(m))
        rn == pontuar_rrestos(rr)
        q  == 2000 * Cardinality(AnosEntregues(m))
        cc == IF m \in DOMAIN df_ca THEN pontuar_ccauc(df_ca[m].pendencias) ELSE 10000
        ce == IF en = NaN THEN 0 ELSE 31 * en
        cr == IF rn = NaN THEN NaN ELSE 25 * rn
        sc == IF en = NaN \/ rn = NaN THEN NaN
              ELSE RoundHE(ce + cr + 19 * q + 25 * (10000 - cc), 1000)
    IN  [contrib_eorcam |-> ce, contrib_rrestos |-> cr,
         contrib_qsiconfi |-> 19 * q, contrib_ccauc |-> 25 * (10000 - cc),
         score |-> sc, classificacao |-> classificar(sc),
         dado_suspeito |-> (~IsNaRaw(RrestosProprio(m)) /\ RrestosProprio(m).s < 0)]
\* the outputs the run has for municipality m
SaidaObtida(m) ==
    [contrib_eorcam |-> df[m].contrib_eorcam, contrib_rrestos |-> df[m].contrib_rrestos,
     contrib_qsiconfi |-> df[m].contrib_qsiconfi, contrib_ccauc |-> df[m].contrib_ccauc,
     score |-> df[m].score, classificacao |-> df[m].classificacao,
     dado_suspeito |-> df[m].dado_suspeito]

(* C15: at the end of the run the contributions, score, class and flag of   *)
(* a municipality whose own raw arrears value is present are a function of  *)
(* its own input rows alone, whatever the rows of the others; a row with    *)
(* eorcam_raw and without own arrears takes the fallback and its outputs    *)
(* are the same function of its own rows and of the state median; no other  *)
(* row takes the fallback.                                                  *)
C15_LinhaIndependente ==
    Fim => \A m \in Mun :
        /\ ~IsNaRaw(RrestosProprio(m)) =>
               /\ m \notin mask_nan_rrestos
               /\ SaidaObtida(m) = SaidaDe(m, RrestosProprio(m))
        /\ m \in mask_nan_rrestos <=>
               (IsNaRaw(RrestosProprio(m)) /\ ~IsNaRaw(EorcamProprio(m)))
        /\ IsNaRaw(RrestosProprio(m)) =>
               SaidaObtida(m) = SaidaDe(m, IF m \in mask_nan_rrestos
                                           THEN mediana_rrestos ELSE NaNRaw)

\* a scored row with arrears of its own that differ from the state median,
\* next to a row that took the fallback
C15_Witness ==
    /\ Fim
    /\ \E m \in Mun, k \in mask_nan_rrestos :
           /\ ~IsNaRaw(RrestosProprio(m))
           /\ ~IsNaRaw(mediana_rrestos)
           /\ LtRaw(RrestosProprio(m), mediana_rrestos)
           /\ df[m].score # NaN
           /\ df[m].rrestos_norm # df[k].rrestos_norm
           /\ df[k].score # NaN

----------------------------------------------------------------------------
(* Properties of pontuar_ccauc *)

\* tokens i and j lie between the same two separators
MesmoItem(txt, i, j) == \A k \in Min(i, j)..Max(i, j) : txt[k] # "|"
\* token i is, white space aside, everything between two separators
ItemInteiro(txt, i) ==
    /\ txt[i] \notin {"|", " "}
    /\ \A j \in 1..Len(txt) : (j # i /\ MesmoItem(txt, i, j)) => txt[j] = " "
\* the labels of conj among the pieces of the string, and all its pieces
NumRotulosDe(txt, conj) ==
    Cardinality({i \in 1..Len(txt) : txt[i] \in conj /\ ItemInteiro(txt, i)})
NumItens(txt) == Cardinality({i \in 1..Len(txt) : txt[i] = "|"}) + 1
EhMarcadorRegular(txt) == upper(strip(txt)) = <<"REGULAR">>

(* C4: pontuar_ccauc returns 1.0 for every string one of whose labels is in *)
(* PENDENCIAS_GRAVES, whatever else the string holds.                       *)
C4_GraveSatura ==
    (/\ ccauc_ret # Pendente
     /\ IsStr(pendencias_str)
     /\ NumRotulosDe(pendencias_str.txt, PENDENCIAS_GRAVES) >= 1)
    => ccauc_ret = 10000

\* one severe label among at least four moderate ones
C4_Witness ==
    /\ ccauc_ret = 10000
    /\ IsStr(pendencias_str)
    /\ NumRotulosDe(pendencias_str.txt, PENDENCIAS_GRAVES) = 1
    /\ NumRotulosDe(pendencias_str.txt, PENDENCIAS_MODERADAS) >= 4

(* C5 as stated: pontuar_ccauc returns 0.0 for the marker REGULAR, for a    *)
(* value that is no string, and for an empty or blank string.               *)
C5_RegularAusenteVazio ==
    (/\ ccauc_ret # Pendente
     /\ \/ ~IsStr(pendencias_str)
        \/ EhMarcadorRegular(pendencias_str.txt)
        \/ strip(pendencias_str.txt) = <<>>)
    => ccauc_ret = 0

C14_GraveNoMaximo75 ==
    Fim => \A m \in DOMAIN df_ca :
        (/\ IsStr(df_ca[m].pendencias)
         /\ NumRotulosDe(df_ca[m].pendencias.txt, PENDENCIAS_GRAVES) >= 1)
        => /\ df[m].contrib_ccauc = 0
           /\ df[m].score # NaN => df[m].score <= 10 * (PESO_TOTAL - PESOS.ccauc)

\* a severe label and otherwise perfect indicators: exactly 75 points
C14_Witness ==
    /\ Fim
    /\ \E m \in DOMAIN df_ca :
           /\ IsStr(df_ca[m].pendencias)
           /\ NumRotulosDe(df_ca[m].pendencias.txt, PENDENCIAS_GRAVES) >= 1
           /\ df[m].eorcam_norm = 10000
           /\ df[m].rrestos_norm = 10000
           /\ df[m].qsiconfi = 10000
           /\ df[m].score = 750

----------------------------------------------------------------------------
(* Properties of classificar and cor_por_score *)

\* the place of a band in the order of the dashboard, best first
Ordem(c) ==
    CASE c = "Risco Baixo" -> 1
      [] c = "Risco Médio" -> 2
      [] c = "Risco Alto"  -> 3
      [] c = "Crítico"     -> 4
      [] c = "Sem Dados"   -> 5

(* C13: classificar gives every score exactly one band, with inclusive      *)
(* lower bounds: 75 and above Risco Baixo, 55 to below 75 Risco Médio, 35   *)
(* to below 55 Risco Alto, below 35 Crítico, an undefined score Sem Dados;  *)
(* a higher score never gets a worse band; and cor_por_score gives the      *)
(* score the colour that CORES holds for the band classificar gives it.     *)
C13_FaixasDeRisco ==
    ret # FaixaPendente =>
        /\ arg = NaN => ret.classificacao = "Sem Dados"
        /\ arg # NaN =>
               /\ ret.classificacao = "Risco Baixo" <=> arg >= 750
               /\ ret.classificacao = "Risco Médio" <=> (550 <= arg /\ arg < 750)
               /\ ret.classificacao = "Risco Alto"  <=> (350 <= arg /\ arg < 550)
               /\ ret.classificacao = "Crítico"     <=> arg < 350
        /\ ret.cor = CORES[ret.classificacao]
        /\ ret_ant # FaixaPendente =>
               (arg_ant < arg /\ Ordem(ret.classificacao) <= Ordem(ret_ant.classificacao))

\* a score at a threshold, reached from the tenth just below it in the
\* band below
C13_Witness ==
    /\ ret # FaixaPendente
    /\ ret_ant # FaixaPendente
    /\ arg \in {350, 550, 750}
    /\ arg_ant = arg - 1
    /\ Ordem(ret.classificacao) = Ordem(ret_ant.classificacao) - 1
    /\ ret.cor # ret_ant.cor

----------------------------------------------------------------------------
(* Properties of the weight tables *)

(* C16 as stated: the weights in force when a run ends, the four of PESOS   *)
(* (eorcam, rrestos, qsiconfi, ccauc) with PESO_SCAIXA and PESO_AUTONOMIA,  *)
(* sum to the declared total of 100 points.                                 *)
C16_SeisPesosSomam100 ==
    Fim =>
    /\ PESO_TOTAL = 100
    /\ PESOS.eorcam + PESOS.rrestos + PESOS.qsiconfi + PESOS.ccauc
           + PESO_SCAIXA + PESO_AUTONOMIA = PESO_TOTAL

----------------------------------------------------------------------------
(* Properties of pontuar_eorcam *)

\* two ratios at most a hundredth of a percent apart
Contiguos(x, y) == Abs(y.s * x.n - x.s * y.n) <= x.n * y.n

(* C17: for every ratio that is present pontuar_eorcam returns a value in   *)
(* [0, 1], and exactly 1.0 for every ratio from 90 % to 105 %, both ends    *)
(* included.                                                                *)
C17_EorcamEntre0e1 ==
    (ret # Pendente /\ ~IsNaRaw(arg)) =>
        /\ 0 <= ret /\ ret <= 10000
        /\ (~Lt(arg, 90) /\ Le(arg, 105)) => ret = 10000

\* the two ends of the healthy zone, scored one after the other
C17_Witness ==
    /\ arg_ant = V(9000)
    /\ ret_ant = 10000
    /\ arg = V(10500)
    /\ ret = 10000

(* C18: above 105 % pontuar_eorcam never rises with the ratio; it is 0.5 at *)
(* 120 % and at every ratio above; and from 105 % on, two ratios a          *)
(* hundredth of a percent apart differ by at most 0.0004 in value, so there *)
(* is no jump at 105 % (from 1.0) or at 120 % (to 0.5).                     *)
C18_EorcamDecresceAcima105 ==
    (ret # Pendente /\ ~IsNaRaw(arg)) =>
        /\ ~Lt(arg, 120) => ret = 5000
        /\ (~Le(arg, 105) /\ Lt(arg, 120)) => (5000 < ret /\ ret < 10000)
        /\ (ret_ant # Pendente /\ ~Le(arg_ant, 105)) => ret_ant >= ret
        /\ (ret_ant # Pendente /\ ~Lt(arg_ant, 105) /\ Contiguos(arg_ant, arg)) =>
               (ret_ant - ret <= 4 /\ ret_ant >= ret)

\* the decay seen between 120 % and the hundredth just below it
C18_Witness ==
    /\ ret_ant = 5003
    /\ Contiguos(arg_ant, arg)
    /\ arg = V(12000)
    /\ ret = 5000

(* C19 as stated: below 90 % pontuar_eorcam never rises with the ratio: for *)
(* r1 <= r2 < 90, pontuar_eorcam(r1) >= pontuar_eorcam(r2).                 *)
C19_EorcamDecresceAbaixo90 ==
    (ret # Pendente /\ ret_ant # Pendente /\ Lt(arg, 90)) => ret_ant >= ret

(* C19, amended: below 90 % pontuar_eorcam never falls as the ratio rises:  *)
(* for r1 <= r2 < 90, pontuar_eorcam(r1) <= pontuar_eorcam(r2).             *)
C19_EorcamCresceAbaixo90 ==
    (ret # Pendente /\ ret_ant # Pendente /\ Lt(arg, 90)) => ret_ant <= ret

\* the ramp of the watch zone: 0.0 at 70 %, then 0.5 at 80 %
C19_Witness ==
    /\ arg_ant = V(7000)
    /\ ret_ant = 0
    /\ arg = V(8000)
    /\ ret = 5000

----------------------------------------------------------------------------
(* Properties of pontuar_rrestos *)

(* C20: pontuar_rrestos returns 1.0 at 0 % and 0.0 at every ratio of 10 %   *)
(* or more; from 0 % to 10 % it never rises with the ratio; and it is 0.7   *)
(* at 3 %, where the linear segment ends and the quadratic one begins       *)
(* without a step: across 3 % two ratios a hundredth of a percent apart     *)
(* differ by at most 0.0021 in value.                                       *)
C20_RrestosDecresce ==
    (ret # Pendente /\ ~IsNaRaw(arg)) =>
        /\ arg.s = 0 => ret = 10000
        /\ ~Lt(arg, 10) => ret = 0
        /\ arg = V(300) => ret = 7000
        /\ (ret_ant # Pendente /\ arg_ant.s >= 0 /\ Le(arg, 10)) => ret_ant >= ret
        /\ (ret_ant # Pendente /\ Le(arg_ant, 3) /\ ~Lt(arg, 3) /\ Contiguos(arg_ant, arg)) =>
               ret_ant - ret <= 21

\* the first value of the quadratic segment, reached from the last of the
\* linear one
C20_Witness ==
    /\ arg_ant = V(300)
    /\ ret_ant = 7000
    /\ arg = V(301)
    /\ ret = 6980

----------------------------------------------------------------------------
(* C21: pontuar_scaixa is continuous at each of its segment boundaries      *)
(* x = 0, x = 0.10 and x = 0.20: the value a hundred-thousandth below the   *)
(* boundary and the value at the boundary differ by no more than one unit   *)
(* of the fourth decimal.  This is the claim as stated; the step at 0.20    *)
(* refutes it.                                                              *)
C21_ScaixaContinuaNasTresQuebras ==
    \A q \in {0, 10000, 20000} :
        (arg = V(q) /\ arg_ant = V(q - 1) /\ ret_ant # Pendente)
            => Abs(ret - ret_ant) <= 1

(* C21, amended: pontuar_scaixa is continuous at x = 0 and x = 0.10 up to   *)
(* one unit of the fourth decimal, and at x = 0.20 it steps from 0.75 to    *)
(* 1.00.                                                                    *)
C21_ScaixaContinuaEm0e010 ==
    /\ \A q \in {0, 10000} :
           (arg = V(q) /\ arg_ant = V(q - 1) /\ ret_ant # Pendente)
               => Abs(ret - ret_ant) <= 1
    /\ (arg = V(20000) /\ arg_ant = V(19999) /\ ret_ant # Pendente)
           => (ret_ant = 7500 /\ ret = 10000)

C21_Witness ==
    /\ arg_ant = V(9999)
    /\ arg = V(10000)
    /\ ret_ant = 7500
    /\ ret = 7500

(* C22: carregar_dca raises dado_suspeito for every entity whose pre-clamp  *)
(* cash-solvency ratio is <= -0.50 and for no entity whose ratio is above   *)
(* -0.50 or missing; flagged entities are still scored.                     *)
C22_SuspeitoAteMenos050 ==
    pc_dca = "fim" =>
        \A m \in Mun :
            /\ dca[m].dado_suspeito <=>
                   (~IsNaRaw(dca[m].scaixa_medio) /\ dca[m].scaixa_medio.s <= -50000)
            /\ dca[m].dado_suspeito =>
                   (dca[m].scaixa_norm # NaN /\ dca[m].contrib_scaixa # NaN)

\* the ratio passed to a normaliser is missing, or the population passed to
\* pontuar_autonomia is
EntradaAusente ==
    IsNaRaw(arg) \/ (fn = "pontuar_autonomia" /\ pop = NaN)

(* C23: missing data propagates through the normalisers.  pontuar_eorcam,   *)
(* pontuar_rrestos and pontuar_scaixa return None if and only if their      *)
(* input is missing; pontuar_autonomia returns None if and only if the raw  *)
(* ratio or the population is missing; for every present input each         *)
(* returns a number in [0, 1].                                              *)
C23_AusenciaPropaga ==
    (fn \in Normalizadores /\ ret # Pendente) =>
        /\ ret = NaN <=> EntradaAusente
        /\ ~EntradaAusente => (0 <= ret /\ ret <= 10000)

C23_Witness ==
    /\ fn = "pontuar_autonomia"
    /\ ~IsNaRaw(arg)
    /\ pop = NaN
    /\ ret = NaN

----------------------------------------------------------------------------
(* Properties of the PNCP collector *)

\* a run has gone through the whole grid
ExecucaoCompleta(e) == execucao > e \/ (execucao = e /\ pc_pncp = "fim")
\* the first page of a block failed in run e
FalhouEm(e, c) ==
    [execucao |-> e, chave |-> c, pagina |-> 1, ok |-> FALSE] \in pedidos
\* the keys the file holds
ChavesNoArquivo == {snap_jsonl[i]._chave : i \in 1..Len(snap_jsonl)}
\* the pages of a block that the file holds
PaginasNoArquivo(c) ==
    {snap_jsonl[i].pagina :
        i \in {j \in 1..Len(snap_jsonl) :
                  snap_jsonl[j]._chave = c /\ ~snap_jsonl[j]._sem_dados}}

(* C25: a block whose coletar_bloco reports failure writes nothing to       *)
(* pncp_parcial.jsonl: its key is not added, the lines of other blocks are  *)
(* unchanged, the run continues with the next block, and the failed block   *)
(* is attempted again on the next run.                                      *)
C25_FalhaNaoEscreve ==
    /\ [][(pedidos' # pedidos /\ ~ret_bloco'.sucesso) =>
             /\ snap_jsonl' = snap_jsonl
             /\ ret_bloco'.chave \notin ChavesNoArquivo'
             /\ pc_pncp' = "laco"
             /\ pos' = pos + 1]_vars
    /\ [](\A e \in 1..MaxExecucoes, c \in Chaves :
             (FalhouEm(e, c) /\ ExecucaoCompleta(e + 1)) =>
                 \E q \in pedidos :
                     q.execucao = e + 1 /\ q.chave = c /\ q.pagina = 1)

C25_Witness ==
    /\ ExecucaoCompleta(2)
    /\ FalhouEm(1, Chave(1))
    /\ [execucao |-> 2, chave |-> Chave(1), pagina |-> 1, ok |-> TRUE] \in pedidos
    /\ [execucao |-> 1, chave |-> Chave(2)] \in escritas
    /\ Chave(1) \in ChavesNoArquivo

(* C26: coletar_bloco returns True only if every page from 1 to             *)
(* totalPaginas was fetched successfully, so a block is written to the      *)
(* checkpoint as done only when all of its pages' records were collected.   *)
C26_VerdadeiroSoComTodasAsPaginas ==
    ret_bloco.sucesso =>
        /\ ret_bloco.paginas = 1..ret_bloco.total_pags
        /\ ret_bloco.chave \in ChavesNoArquivo
               => PaginasNoArquivo(ret_bloco.chave) = 1..ret_bloco.total_pags

(* C27: resume is idempotent.  A block whose key is in the file is never    *)
(* fetched again and nothing is appended for it: each key is written by at  *)
(* most one run, every successfully collected block, with records or with   *)
(* the _sem_dados marker, is skipped afterwards, and a run started after a  *)
(* fully successful run issues no requests and appends no lines.            *)
C27_RetomadaIdempotente ==
    /\ \A w1 \in escritas, w2 \in escritas :
           w1.chave = w2.chave => w1.execucao = w2.execucao
    /\ \A q \in pedidos : (q.pagina = 1 /\ q.ok) =>
           [execucao |-> q.execucao, chave |-> q.chave] \in escritas
    /\ \A q \in pedidos, w \in escritas :
           q.chave = w.chave => q.execucao <= w.execucao
    /\ {w.chave : w \in escritas} = ChavesNoArquivo
    /\ \A e \in 2..execucao :
           (\A c \in Chaves : \E w \in escritas : w.chave = c /\ w.execucao < e) =>
               /\ \A q \in pedidos : q.execucao # e
               /\ \A w \in escritas : w.execucao # e

C27_Witness ==
    /\ execucao = 2
    /\ pc_pncp = "fim"
    /\ \A c \in Chaves : [execucao |-> 1, chave |-> c] \in escritas
    /\ \E i \in 1..Len(snap_jsonl) : snap_jsonl[i]._sem_dados
    /\ \A q \in pedidos : q.execucao = 1

----------------------------------------------------------------------------
(* Properties of the SICONFI crawler *)

\* the coroutines inside the request loop
NoLaco == {t \in Tarefas : tarefa[t] = "laco"}

(* C28: at every moment at most MAX_CONCORRENCIA = 10 extrair_assincrono    *)
(* coroutines are inside the paginated request loop, however many tasks     *)
(* were gathered; a coroutine releases its slot when it leaves the loop for *)
(* any reason, so every gathered task eventually gets a slot once the       *)
(* running ones finish.                                                     *)
C28_NoMaximoDezNoLaco ==
    /\ [](Cardinality(NoLaco) <= MAX_CONCORRENCIA)
    /\ [](semaforo = MAX_CONCORRENCIA - Cardinality(NoLaco))
    /\ \A t \in Tarefas : <>(tarefa[t] \in {"laco", "fim"})

C28_Witness ==
    /\ Cardinality(NoLaco) = MAX_CONCORRENCIA
    /\ tarefa[MAX_CONCORRENCIA + 1] = "laco"
    /\ \E t \in TarefasRreo : tarefa[t] = "fim"

----------------------------------------------------------------------------
(* Properties of fetch_com_retry *)

\* an answer after which the call tries again
Repetivel(r) == r \notin {"200", "400", "404"}

(* C29: fetch_com_retry always terminates after at most tentativas GET      *)
(* requests: it returns the JSON payload of the first successful response,  *)
(* returns None at once, without a further attempt, on HTTP 400 or 404,     *)
(* retries after a wait of 2^attempt seconds on 429, other HTTP errors and  *)
(* request errors, and returns None when every attempt has failed.          *)
C29_TerminaEmTentativas ==
    /\ <>(pc_fetch = "fim")
    /\ [](Len(respostas) <= tentativas)
    /\ [](\A i \in 1..Len(respostas) :
             /\ i < Len(respostas) => Repetivel(respostas[i])
             /\ Repetivel(respostas[i]) =>
                    (i <= Len(esperas) /\ esperas[i] = 2 ^ (i - 1)))
    /\ [](Len(esperas) = Cardinality({i \in 1..Len(respostas) : Repetivel(respostas[i])}))
    /\ [](pc_fetch = "fim" =>
             LET n == Len(respostas) IN
             /\ retorno = "json" <=> (n > 0 /\ respostas[n] = "200")
             /\ retorno = "None" <=>
                    \/ n > 0 /\ respostas[n] \in {"400", "404"}
                    \/ n = tentativas /\ \A i \in 1..n : Repetivel(respostas[i]))
    /\ [](pc_fetch # "fim" => retorno = "")

C29_Witness ==
    /\ pc_fetch = "fim"
    /\ tentativas = 3
    /\ respostas = <<"429", "RequestError", "404">>
    /\ esperas = <<1, 2>>
    /\ retorno = "None"

----------------------------------------------------------------------------
(* Properties of the round trip from the CAUC collector to pontuar_ccauc *)

\* the pieces pontuar_ccauc makes of a cell: split on "|", each stripped
ItensDe(txt) == [i \in 1..Len(split(txt)) |-> strip(split(txt)[i])]
\* the names of REQUISITOS
NomesDosRequisitos == {REQUISITOS[c].nome : c \in Colunas}
\* the columns of the row that are pending
ColunasEmAberto == {c \in Colunas : EmAberto(linha_cauc[c])}

(* C30: for every set of pending requirements the collector can record      *)
(* (REQUISITOS names joined with " | ", or "REGULAR" when the set is        *)
(* empty), the split-and-strip of pontuar_ccauc recovers exactly those      *)
(* labels; every label of PENDENCIAS_GRAVES and PENDENCIAS_MODERADAS is a   *)
(* REQUISITOS name and the two sets are disjoint, so an entity gets risk    *)
(* 1.0 if and only if at least one severe requirement was recorded as       *)
(* pending, and risk 0.0 if and only if none was pending.                   *)
C30_IdaEVolta ==
    pc_cauc = "fim" =>
        LET nomes == PendenciasDe(linha_cauc) IN
        /\ Len(nomes) = Cardinality(ColunasEmAberto)
        /\ IsStr(pendencias_str)
        /\ nomes = <<>> => pendencias_str.txt = <<"REGULAR">>
        /\ nomes # <<>> =>
               ItensDe(pendencias_str.txt) = [i \in 1..Len(nomes) |-> <<nomes[i]>>]
        /\ PENDENCIAS_GRAVES \cup PENDENCIAS_MODERADAS \subseteq NomesDosRequisitos
        /\ PENDENCIAS_GRAVES \cap PENDENCIAS_MODERADAS = {}
        /\ ccauc_ret = 10000 <=>
               \E c \in ColunasEmAberto : REQUISITOS[c].nome \in PENDENCIAS_GRAVES
        /\ ccauc_ret = 0 <=> ColunasEmAberto = {}

C30_Witness ==
    /\ pc_cauc = "fim"
    /\ Cardinality(ColunasEmAberto) = 2
    /\ pendencias_str = Str(<<"Regularidade FGTS", " ", "|", " ", "CADIN">>)
    /\ ccauc_ret = 10000

====
